---- MODULE Spec2Model ----
(***************************************************************************)
(* A model of lenar (src/src/lib.rs): the fused lexer/parser that fills    *)
(* the arena of ParserObjects, and the tree-walking evaluator that runs    *)
(* the arena against a Scope tree, with closures, Ref cells and spawned    *)
(* threads.                                                                *)
(*                                                                         *)
(* Source text is a sequence of one-character strings; a character takes   *)
(* one byte of the UTF-8 text, or two (the characters of `Wide`).  Arena   *)
(* keys are the slab's keys 0, 1, 2, ...; key k is element k + 1 of the    *)
(* sequence `objects`.                                                     *)
(***************************************************************************)
EXTENDS Integers, Sequences, FiniteSets, TLC

(***************************************************************************)
(* Small helpers on sequences.                                             *)
(***************************************************************************)
Last(s) == s[Len(s)]

Front(s) == SubSeq(s, 1, Len(s) - 1)

IsPrefix(s, t) == Len(s) <= Len(t) /\ SubSeq(t, 1, Len(s)) = s

Range(s) == {s[k] : k \in 1..Len(s)}

RECURSIVE Concat(_)
Concat(s) == IF s = <<>> THEN "" ELSE Head(s) \o Concat(Tail(s))

(***************************************************************************)
(*                              PARSER                                     *)
(***************************************************************************)

Digits == <<"0", "1", "2", "3", "4", "5", "6", "7", "8", "9">>

IsAsciiDigit(c) == c \in Range(Digits)

\* char::is_whitespace on the characters the sources use
IsWhitespace(c) == c \in {" ", "\n", "\t"}

DigitValue(c) == (CHOOSE k \in 1..10 : Digits[k] = c) - 1

\* str::parse::<usize>: every character a digit, else Err (-1 here)
RECURSIVE ParseUsizeFrom(_, _)
ParseUsizeFrom(s, acc) ==
    IF s = <<>> THEN acc
    ELSE IF ~IsAsciiDigit(Head(s)) THEN -1
    ELSE ParseUsizeFrom(Tail(s), acc * 10 + DigitValue(Head(s)))

ParseUsize(s) == IF s = <<>> THEN -1 ELSE ParseUsizeFrom(s, 0)

\* the characters that take two bytes in UTF-8
Wide == {"é"}

\* the byte offset of the end of the first p characters
ByteOffset(code, p) == p + Cardinality({k \in 1..p : code[k] \in Wide})

\* str::len
ByteLen(code) == ByteOffset(code, Len(code))

\* str::is_char_boundary
is_char_boundary(code, b) == \E p \in 0..Len(code) : ByteOffset(code, p) = b

\* the number of characters that end at or before byte offset b
CharsBefore(code, b) ==
    Cardinality({p \in 1..Len(code) : ByteOffset(code, p) <= b})

\* &code[start..end]: the characters of the byte range, or a panic when an
\* end of the range is inside a character
ByteSlice(code, start, end) ==
    IF is_char_boundary(code, start) /\ is_char_boundary(code, end)
    THEN [panic |-> FALSE, s |-> SubSeq(code, CharsBefore(code, start) + 1, CharsBefore(code, end))]
    ELSE [panic |-> TRUE, s |-> <<>>]

\* code[start..end] when the code is that long (start, end are 0-based byte
\* offsets); None is the empty slice here
slice_with_size(start, end, code) ==
    IF ByteLen(code) < end THEN [panic |-> FALSE, s |-> <<>>] ELSE ByteSlice(code, start, end)

\* number of characters from 0-based position p that differ from `until`
RunUntil(until, code, p) ==
    LET stops == {k \in (p + 1)..Len(code) : code[k] = until}
    IN  IF p >= Len(code) THEN 0
        ELSE IF stops = {} THEN Len(code) - p
        ELSE (CHOOSE k \in stops : \A j \in stops : k <= j) - p - 1

\* chars.take_while(|v| v != until): the run is returned and the character
\* that ended it is consumed as well
slice_until(until, code, p) ==
    LET n == RunUntil(until, code, p)
    IN  [s |-> SubSeq(code, p + 1, p + n),
         p |-> IF p + n < Len(code) THEN p + n + 1 ELSE p + n]

Delimeters == {",", ";", ")", "}", " ", "\n", "]"}

RunUntilDelimeter(code, p) ==
    LET stops == {k \in (p + 1)..Len(code) : code[k] \in Delimeters}
    IN  IF p >= Len(code) THEN 0
        ELSE IF stops = {} THEN Len(code) - p
        ELSE (CHOOSE k \in stops : \A j \in stops : k <= j) - p - 1

\* chars.next_if(..): the delimiter itself stays in the stream
slice_until_delimeter(code, p) ==
    LET n == RunUntilDelimeter(code, p)
    IN  [s |-> SubSeq(code, p + 1, p + n), p |-> p + n]

\* start is the offset of a character: the count runs over characters
count_unexpected_between(start, until, code) ==
    LET from == CharsBefore(code, start)
        n    == RunUntil(until, code, from)
    IN  Cardinality({k \in (from + 1)..(from + n) :
                        IsWhitespace(code[k]) \/ code[k] = ";" \/ code[k] = ")"})

EmptyBlock == [type |-> "Block", objects |-> <<>>]

\* Slab::insert on an arena nothing is ever removed from: the key is the length
Insert(objects, node) == Append(objects, node)

NextKey(objects) == Len(objects)

add_objectAfter(objects, block, key) ==
    IF objects[block + 1].type = "Block"
    THEN [objects EXCEPT ![block + 1].objects = Append(@, key + 1)]
    ELSE objects

\* ParserObject::add_object
add_object(objects, block, key) ==
    IF objects[block + 1].type = "Block"
    THEN [objects EXCEPT ![block + 1].objects = Append(@, key)]
    ELSE objects

\* Vec::pop: nothing happens on an empty vector
Pop(stack) == IF stack = <<>> THEN stack ELSE Front(stack)

\* `}`: the block is closed, and the value block of an if or fn with it
CloseBlock(stack) ==
    IF Pop(stack) # <<>> /\ Last(Pop(stack)).type = "FuncValue"
    THEN Pop(Pop(stack)) ELSE Pop(stack)

\* Parser::new before its call of parse
NewParser == [objects |-> <<EmptyBlock>>, global_block |-> 0]

\* the locals of Parser::parse at loop entry
ParseStart(parser, code) ==
    [code          |-> code,
     p             |-> 0,
     objects       |-> parser.objects,
     block_indexes |-> <<[key |-> parser.global_block, type |-> "Generic"]>>,
     string_count  |-> 0,
     last_action   |-> "EnteredGlobalScope",
     panic         |-> FALSE]

\* `let NAME `: a value block, and a VarDef in the current block
ParseLet(ps, current_block) ==
    LET name      == slice_until(" ", ps.code, ps.p + 3)
        block_key == NextKey(ps.objects)
        o1        == Insert(ps.objects, EmptyBlock)
        var_key   == NextKey(o1)
        o2        == Insert(o1, [type |-> "VarDef", block_value |-> block_key,
                                 var_name |-> Concat(name.s)])
    IN  [ps EXCEPT !.p = name.p,
                   !.objects = add_object(o2, current_block, var_key),
                   !.block_indexes = Append(@, [key |-> block_key, type |-> "Value"]),
                   !.last_action = "DefinedVariable"]

\* NAME( : if, fn or an ordinary call
ParseFunction(ps, val, current_block) ==
    LET name      == slice_until("(", ps.code, ps.p)
        item_name == Concat(<<val>> \o name.s)
        k1        == NextKey(ps.objects)
        o1        == Insert(ps.objects, EmptyBlock)
        k2        == NextKey(o1)
    IN  IF item_name = "if" THEN
            LET o2     == Insert(o1, EmptyBlock)
                if_key == NextKey(o2)
                o3     == Insert(o2, [type |-> "IfDef", block_value |-> k2,
                                      condition_block |-> k1])
            IN  [ps EXCEPT !.p = name.p,
                           !.objects = add_object(o3, current_block, if_key),
                           !.block_indexes = @ \o <<[key |-> k2, type |-> "FuncValue"],
                                                    [key |-> k1, type |-> "FuncCall"]>>,
                           !.last_action = "CalledFunction"]
        ELSE IF item_name = "fn" THEN
            LET o2     == Insert(o1, EmptyBlock)
                k3     == NextKey(o2)
                o3     == Insert(o2, EmptyBlock)
                fn_key == NextKey(o3)
                o4     == Insert(o3, [type |-> "FnDef", block_value |-> k2,
                                      arguments_block |-> k1, capture_value |-> k3])
            IN  [ps EXCEPT !.p = name.p,
                           !.objects = add_object(o4, current_block, fn_key),
                           !.block_indexes = @ \o <<[key |-> k2, type |-> "FuncValue"],
                                                    [key |-> k3, type |-> "FuncCapture"],
                                                    [key |-> k1, type |-> "FuncCall"]>>,
                           !.last_action = "CalledFunction"]
        ELSE
            LET o2 == Insert(o1, [type |-> "FunctionCall", fn_name |-> item_name,
                                  arguments |-> k1])
            IN  [ps EXCEPT !.p = name.p,
                           !.objects = add_object(o2, current_block, k2),
                           !.block_indexes = Append(@, [key |-> k1, type |-> "FuncCall"]),
                           !.last_action = "CalledFunction"]

RECURSIVE SplitDots(_, _)
SplitDots(s, cur) ==
    IF s = <<>> THEN <<Concat(cur)>>
    ELSE IF Head(s) = "." THEN <<Concat(cur)>> \o SplitDots(Tail(s), <<>>)
    ELSE SplitDots(Tail(s), Append(cur, Head(s)))

\* a dotted path, a number or a plain variable reference
ParseReference(ps, val, i, current_block) ==
    LET item == slice_until_delimeter(ps.code, ps.p)
        text == <<val>> \o item.s
        key  == NextKey(ps.objects)
    IN  IF count_unexpected_between(i, ".", ps.code) = 0 THEN
            [ps EXCEPT !.p = item.p,
                       !.objects = add_object(
                           Insert(@, [type |-> "PropertyRef", path |-> SplitDots(text, <<>>)]),
                           current_block, key),
                       !.last_action = "ReferencedVariable"]
        ELSE IF IsAsciiDigit(val) THEN
            IF ParseUsize(text) >= 0
            THEN [ps EXCEPT !.p = item.p,
                            !.objects = add_object(
                                Insert(@, [type |-> "NumberVal", value |-> ParseUsize(text)]),
                                current_block, key),
                            !.last_action = "FoundNumber"]
            ELSE [ps EXCEPT !.p = item.p]
        ELSE
            [ps EXCEPT !.p = item.p,
                       !.objects = add_object(
                           Insert(@, [type |-> "VarRef", var_name |-> Concat(text)]),
                           current_block, key),
                       !.last_action = "ReferencedVariable"]

\* one turn of the loop of Parser::parse: the character at offset i
ParseStep(ps0) ==
    LET i   == ByteOffset(ps0.code, ps0.p)
        val == ps0.code[ps0.p + 1]
        ps  == [ps0 EXCEPT !.p = @ + 1]
        out == ps.string_count = 0
    IN  IF out /\ (val = " " \/ val = "\n") THEN ps
        ELSE IF ps.block_indexes = <<>> THEN [ps EXCEPT !.panic = TRUE]
        ELSE
        LET current_block      == Last(ps.block_indexes).key
            current_block_type == Last(ps.block_indexes).type
        IN  IF val = ")" /\ out THEN
                [ps EXCEPT !.block_indexes = Pop(@), !.last_action = "ClosedStatement"]
            ELSE IF val = "=" /\ out THEN
                IF ps.last_action = "DefinedVariable"
                THEN [ps EXCEPT !.last_action = "FoundOperator"]
                ELSE [ps EXCEPT !.panic = TRUE]
            ELSE IF val = ";" /\ out THEN
                [ps EXCEPT !.block_indexes =
                               IF current_block_type = "Value" THEN Pop(@) ELSE @,
                           !.last_action = "ClosedStatement"]
            ELSE IF val = "\"" THEN
                IF ps.string_count > 0 THEN
                    LET key == NextKey(ps.objects)
                        str == ByteSlice(ps.code, i - ps.string_count + 1, i)
                    IN  IF str.panic THEN [ps EXCEPT !.panic = TRUE]
                        ELSE [ps EXCEPT !.objects = add_object(
                                            Insert(@, [type |-> "BytesVal", value |-> str.s]),
                                            current_block, key),
                                        !.last_action = "ClosedString",
                                        !.string_count = 0]
                ELSE [ps EXCEPT !.last_action = "OpenedString", !.string_count = 1]
            ELSE IF val = "{" /\ out THEN
                LET key == NextKey(ps.objects)
                IN  [ps EXCEPT !.objects = add_object(Insert(@, EmptyBlock), current_block, key),
                               !.block_indexes = Append(@, [key |-> key, type |-> "Generic"]),
                               !.last_action = "OpenedBlock"]
            ELSE IF val = "}" /\ out THEN
                [ps EXCEPT !.block_indexes = CloseBlock(@), !.last_action = "ClosedBlock"]
            ELSE IF val = "[" /\ out THEN ps
            ELSE IF val = "]" /\ out THEN
                [ps EXCEPT !.block_indexes = Pop(@), !.last_action = "ClosedBlock"]
            ELSE IF out /\ slice_with_size(i, i + 3, ps.code).panic THEN
                [ps EXCEPT !.panic = TRUE]
            ELSE IF out /\ slice_with_size(i, i + 3, ps.code).s = <<"l", "e", "t">> THEN
                ParseLet(ps, current_block)
            ELSE IF ~out THEN [ps EXCEPT !.string_count = @ + 1]
            ELSE IF count_unexpected_between(i, "(", ps.code) = 0 THEN
                ParseFunction(ps, val, current_block)
            ELSE ParseReference(ps, val, i, current_block)

RECURSIVE ParseTurns(_, _)
ParseTurns(ps, n) ==
    IF n = 0 \/ ps.panic \/ ps.p >= Len(ps.code) THEN ps
    ELSE IF n = 1 THEN ParseStep(ps)
    ELSE ParseTurns(ParseTurns(ps, n \div 2), n - (n \div 2))

\* the loop of Parser::parse: every turn consumes a character or more, so
\* Len(code) turns reach the end of the code
ParseLoop(ps) == ParseTurns(ps, Len(ps.code))

\* Parser::parse: the parser after the call, and whether the call panicked
Parse(parser, code) ==
    LET ps == ParseLoop(ParseStart(parser, code))
    IN  [parser |-> [parser EXCEPT !.objects = ps.objects],
         panic  |-> ps.panic,
         block_indexes |-> ps.block_indexes,
         string_count  |-> ps.string_count]


(***************************************************************************)
(*                           RUNTIME VALUES                                *)
(*                                                                         *)
(* A LenarValue is a record tagged by t.  An Rc<RefCell<LenarValue>> is an *)
(* address into `heap`; an anonymous function is an index into `fns`; a    *)
(* builtin function object is named by its kind and by the number of the   *)
(* Scope whose setup_globals created it.  Two fields are history only and  *)
(* are read by no operation of the program: `origin` of a Ref (the cell    *)
(* the ref() call allocated) and `task` of a thread handle (the task the   *)
(* thread call started).                                                   *)
(***************************************************************************)
Void == [t |-> "Void"]

Usize(n) == [t |-> "Usize", n |-> n]

Bool(b) == [t |-> "Bool", v |-> b]

Bytes(b) == [t |-> "Bytes", b |-> b]

OwnedBytes(b) == [t |-> "OwnedBytes", b |-> b]

Byte(c) == [t |-> "Byte", b |-> c]

Str(s) == [t |-> "Str", s |-> s]

List(items) == [t |-> "List", items |-> items]

Enum(variant, v) == [t |-> "Enum", variant |-> variant, value |-> v]

Function(kind, id) == [t |-> "Function", kind |-> kind, id |-> id]

Instance(name) == [t |-> "Instance", name |-> name]

Ref(addr, origin) == [t |-> "Ref", addr |-> addr, origin |-> origin]

\* LenarResult, and a panic of the evaluating thread
Ok(v) == [k |-> "Ok", v |-> v]

Err(kind, arg) == [k |-> "Err", err |-> [kind |-> kind, arg |-> arg]]

Panic(msg) == [k |-> "Panic", msg |-> msg]

Ret(r, st) == [r |-> r, st |-> st]

\* impl PartialEq for LenarValue
RECURSIVE LenarEq(_, _)

\* an equality that would compare borrowed bytes with owned bytes, in this
\* order only
LenarEqBiased(a, b) ==
    CASE a.t = "Usize" /\ b.t = "Usize" -> a.n = b.n
      [] a.t = "List" /\ b.t = "List" ->
            /\ Len(a.items) = Len(b.items)
            /\ \A k \in 1..Len(a.items) : LenarEq(a.items[k], b.items[k])
      [] a.t = "Str" /\ b.t = "Str" -> a.s = b.s
      [] a.t = "Bytes" /\ b.t \in {"Bytes", "OwnedBytes"} -> a.b = b.b
      [] a.t = "OwnedBytes" /\ b.t = "OwnedBytes" -> a.b = b.b
      [] a.t = "Bool" /\ b.t = "Bool" -> a.v = b.v
      [] a.t = "Void" /\ b.t = "Void" -> TRUE
      [] OTHER -> FALSE

LenarEq(a, b) ==
    CASE a.t = "Usize" /\ b.t = "Usize" -> a.n = b.n
      [] a.t = "List" /\ b.t = "List" ->
            /\ Len(a.items) = Len(b.items)
            /\ \A k \in 1..Len(a.items) : LenarEq(a.items[k], b.items[k])
      [] a.t = "Str" /\ b.t = "Str" -> a.s = b.s
      [] a.t = "Bytes" /\ b.t = "Bytes" -> a.b = b.b
      [] a.t = "OwnedBytes" /\ b.t = "OwnedBytes" -> a.b = b.b
      [] a.t = "Bool" /\ b.t = "Bool" -> a.v = b.v
      [] a.t = "Void" /\ b.t = "Void" -> TRUE
      [] OTHER -> FALSE

\* usize::to_string
RECURSIVE NatToStr(_)
NatToStr(n) == IF n < 10 THEN Digits[n + 1] ELSE NatToStr(n \div 10) \o Digits[(n % 10) + 1]

\* get_name of a function object
FunctionName(f) == IF f.kind = "Anonymous" THEN "Anonymous" ELSE f.kind

\* RefCell::borrow of a function object fails while a call holds borrow_mut
Borrowed(st, f) == <<f.kind, f.id>> \in st.borrowed

NoText == [ok |-> FALSE, s |-> ""]

Text(s) == [ok |-> TRUE, s |-> s]

\* impl Display for LenarValue; ok is FALSE where formatting panics
\* (debug_map().value(..) of a list, borrow() of a function in a call)
RECURSIVE Display(_, _)
Display(st, v) ==
    CASE v.t = "Usize" -> Text(NatToStr(v.n))
      [] v.t = "List" -> NoText
      [] v.t = "Str" -> Text(v.s)
      [] v.t = "Byte" -> Text(v.b)
      [] v.t \in {"Bytes", "OwnedBytes"} -> Text(Concat(v.b))
      [] v.t = "Void" -> Text("Void")
      [] v.t = "Bool" -> Text(IF v.v THEN "true" ELSE "false")
      [] v.t = "Instance" -> Text(v.name)
      [] v.t = "Function" -> IF Borrowed(st, v) THEN NoText ELSE Text(FunctionName(v))
      [] v.t = "Enum" ->
            LET inner == Display(st, v.value)
            IN  IF inner.ok THEN Text(v.variant \o "(" \o inner.s \o ")") ELSE NoText
      [] v.t = "Ref" -> Display(st, st.heap[v.addr])

\* PrintFunc::write
RECURSIVE WriteSeq(_, _)
RECURSIVE Write(_, _)
Write(st, v) ==
    CASE v.t = "List" -> WriteSeq(st, v.items)
      [] OTHER -> Display(st, v)

WriteSeq(st, vals) ==
    IF vals = <<>> THEN Text("")
    ELSE LET first == Write(st, Head(vals))
             rest  == WriteSeq(st, Tail(vals))
         IN  IF first.ok /\ rest.ok THEN Text(first.s \o rest.s) ELSE NoText

\* LenarValue::as_integer; -1 is None, -2 a borrow of a mutably borrowed cell
RECURSIVE as_integer(_, _, _)
as_integer(heap, v, locked) ==
    CASE v.t = "Usize" -> v.n
      [] v.t = "Ref" -> IF v.addr \in locked THEN -2
                        ELSE as_integer(heap, heap[v.addr], locked)
      [] OTHER -> -1

\* LenarValue::set_integer on the value stored at `addr`
RECURSIVE set_integer(_, _, _)
set_integer(heap, addr, integer) ==
    CASE heap[addr].t = "Usize" -> [heap EXCEPT ![addr] = Usize(integer)]
      [] heap[addr].t = "Ref" -> set_integer(heap, heap[addr].addr, integer)
      [] OTHER -> heap

\* LenarValue::as_func: "None", or the function; a Ref is borrowed on the way
RECURSIVE as_func(_, _)
as_func(heap, v) ==
    CASE v.t = "Function" -> v
      [] v.t = "Ref" -> as_func(heap, heap[v.addr])
      [] OTHER -> Void

(***************************************************************************)
(*                     SLAB, SCOPE TREE, GLOBALS                           *)
(*                                                                         *)
(* A Scope and its nested scopes are one function from paths of scope ids  *)
(* to variable maps: the root is <<>>, and the scope reached from the root *)
(* through ids 1 and 2 is <<1, 2>>.                                        *)
(***************************************************************************)

\* Slab of the join handles: a vacant entry holds the next vacant key
SlabNew == [entries |-> <<>>, next |-> 0]

SlabInsert(slab, v) ==
    LET key == slab.next
    IN  IF key = Len(slab.entries)
        THEN [slab |-> [entries |-> Append(slab.entries, [occ |-> TRUE, val |-> v]),
                        next |-> key + 1],
              key |-> key]
        ELSE [slab |-> [entries |-> [slab.entries EXCEPT ![key + 1] = [occ |-> TRUE, val |-> v]],
                        next |-> slab.entries[key + 1].val],
              key |-> key]

SlabContains(slab, key) == key < Len(slab.entries) /\ slab.entries[key + 1].occ

SlabGet(slab, key) == slab.entries[key + 1].val

\* Slab::remove of an occupied key (it panics on any other)
SlabRemove(slab, key) ==
    [entries |-> [slab.entries EXCEPT ![key + 1] = [occ |-> FALSE, val |-> slab.next]],
     next |-> key]

EmptyMap == [n \in {} |-> Void]

MapInsert(m, name, v) == (name :> v) @@ m

BuiltinFunctions ==
    {"add", "ref", "unwrapErr", "unwrap", "Err", "isOk", "Ok", "wait", "sleep",
     "thread", "list", "iter", "toString", "openFile", "print", "println", "isEqual"}

BuiltinNames == BuiltinFunctions \cup {"Lenar"}

\* Scope::setup_globals on the Scope numbered inst
setup_globals(inst) ==
    [n \in BuiltinNames |-> IF n = "Lenar" THEN Instance("Lenar") ELSE Function(n, inst)]

\* Scope::default followed by setup_globals
NewScopeTree(inst) == (<<>> :> setup_globals(inst))

\* Scope::get_scope unwraps every step of the path
HasScope(tree, path) == path \in DOMAIN tree

Below(tree, path) == {q \in DOMAIN tree : IsPrefix(path, q)}

RemoveSubtree(tree, path) == [q \in (DOMAIN tree \ Below(tree, path)) |-> tree[q]]

\* a create_scope that would insert nothing
create_scopeNothing(tree, scope_path, scope_id) == tree

\* Scope::create_scope (the caller has checked HasScope(tree, scope_path))
create_scope(tree, scope_path, scope_id) ==
    (Append(scope_path, scope_id) :> EmptyMap) @@ RemoveSubtree(tree, Append(scope_path, scope_id))

\* Scope::drop_scope
drop_scope(tree, scope_path, scope_id) ==
    RemoveSubtree(tree, Append(scope_path, scope_id))

\* Scope::define_variable
define_variable(tree, name, scope_path, value) ==
    [tree EXCEPT ![scope_path] = MapInsert(@, name, value)]

\* a lookup that would give Void for a name that is not bound
LookupVoid(vars, name) ==
    IF name \in DOMAIN vars THEN Ok(vars[name]) ELSE Ok(Void)

\* variables.get(name): the variable or VariableNotFound; whoever asked for it
\* receives its clone (see clone)
Lookup(vars, name) ==
    IF name \in DOMAIN vars THEN Ok(vars[name]) ELSE Err("VariableNotFound", name)

\* Scope::get_variable, at the scope that the first k ids of the path reach
RECURSIVE get_variable_at(_, _, _, _)
get_variable_at(tree, name, path, k) ==
    LET here == SubSeq(path, 1, k)
    IN  IF k < Len(path) THEN
            IF ~HasScope(tree, SubSeq(path, 1, k + 1)) THEN Panic("no such scope")
            ELSE LET result == get_variable_at(tree, name, path, k + 1)
                 IN  IF result.k = "Panic" THEN result
                     ELSE IF result.k = "Ok" /\ result.v.t # "Void" THEN result
                     ELSE Lookup(tree[here], name)
        ELSE Lookup(tree[here], name)

get_variable(tree, name, path) == get_variable_at(tree, name, path, 0)

\* LenarGlobal::get_prop
get_prop(prop) == IF prop = "version" THEN Str("1.0.0") ELSE Void

\* RuntimeInstance::get_props: the segment after the holder, and no other
get_props(rest) == IF rest = <<>> THEN Void ELSE get_prop(Head(rest))

PropertyLookup(vars, var_path) ==
    IF Head(var_path) \in DOMAIN vars /\ vars[Head(var_path)].t = "Instance"
    THEN Ok(get_props(Tail(var_path)))
    ELSE Err("VariableNotFound", Head(var_path))

\* Scope::get_variable_by_path
RECURSIVE get_variable_by_path_at(_, _, _, _)
get_variable_by_path_at(tree, var_path, path, k) ==
    LET here == SubSeq(path, 1, k)
    IN  IF k < Len(path) THEN
            IF ~HasScope(tree, SubSeq(path, 1, k + 1)) THEN Panic("no such scope")
            ELSE LET result == get_variable_by_path_at(tree, var_path, path, k + 1)
                 IN  IF result.k = "Panic" THEN result
                     ELSE IF result.k = "Ok" /\ result.v.t # "Void" THEN result
                     ELSE PropertyLookup(tree[here], var_path)
        ELSE PropertyLookup(tree[here], var_path)

get_variable_by_path(tree, var_path, path) == get_variable_by_path_at(tree, var_path, path, 0)

\* Scope::get_function: "Void" stands for None
RECURSIVE get_function_at(_, _, _, _, _)
get_function_at(tree, heap, name, path, k) ==
    LET here == SubSeq(path, 1, k)
        own  == IF name \in DOMAIN tree[here] THEN as_func(heap, tree[here][name]) ELSE Void
    IN  IF k < Len(path) THEN
            IF ~HasScope(tree, SubSeq(path, 1, k + 1)) THEN Panic("no such scope")
            ELSE LET result == get_function_at(tree, heap, name, path, k + 1)
                 IN  IF result.k = "Panic" THEN result
                     ELSE IF result.v.t # "Void" THEN result
                     ELSE Ok(own)
        ELSE Ok(own)

get_function(tree, heap, name, path) == get_function_at(tree, heap, name, path, 0)

(***************************************************************************)
(*                          EVALUATOR STATE                                *)
(*                                                                         *)
(* The evaluator works on a record st:                                     *)
(*   objects   the parser's arena                                          *)
(*   tree,inst the Scope it was handed, and that Scope's number            *)
(*   me        the thread that evaluates: 0 the host's, t > 0 task t's     *)
(*   borrowed  the function objects a running call holds with borrow_mut   *)
(*   heap      the cells behind Ref values                                 *)
(*   fns       the anonymous functions created so far                      *)
(*   locks     thread_locks of every Scope, files its resources_files      *)
(*   tasks     the spawned threads                                         *)
(*   out       what was written to stdout, and by whom                     *)
(*   ninst     the number of Scopes created so far                         *)
(*   log       history of the evaluation, read by the properties only      *)
(*   run,stmt  which run and which root statement is being evaluated       *)
(***************************************************************************)

\* the files that File::open finds
FileSystem == ("f" :> <<"h", "i">>)

\* history: an event, with who evaluates, in which run and statement, and
\* the scopes that the Scope in use has when the event is recorded
Log(st, ev) ==
    [st EXCEPT !.log = Append(@, ev @@ [by |-> st.me, run |-> st.run, stmt |-> st.stmt,
                                        scopes |-> DOMAIN st.tree])]

\* stdout().write
Emit(st, text) == [st EXCEPT !.out = Append(@, [by |-> st.me, text |-> text])]

\* Rc::new(RefCell::new(value))
NewCell(st, value) == [st EXCEPT !.heap = Append(@, value)]

NewAddr(st) == Len(st.heap) + 1

\* Scope::default: a Scope with its own thread_locks and, after
\* setup_globals, its own resources_files
NewScope(st) ==
    [st EXCEPT !.ninst = @ + 1,
               !.locks = Append(@, SlabNew),
               !.files = Append(@, SlabNew)]

NewInst(st) == st.ninst

\* the cell that a chain of Refs ends in
RECURSIVE RootAddr(_, _)
RootAddr(heap, addr) ==
    IF heap[addr].t = "Ref" THEN RootAddr(heap, heap[addr].addr) ELSE addr

\* the ref() call that made the cell that a chain of Refs ends in
RECURSIVE RootOrigin(_, _)
RootOrigin(heap, v) ==
    IF heap[v.addr].t = "Ref" THEN RootOrigin(heap, heap[v.addr]) ELSE v.origin

\* a clone that would copy the content of a Ref into a cell of its own
CloneDetached(st, v) ==
    IF v.t = "Ref"
    THEN [v |-> Ref(NewAddr(st), v.origin), st |-> NewCell(st, st.heap[v.addr])]
    ELSE [v |-> v, st |-> st]

\* LenarValue::clone (derived): the clone of a Ref is another Rc to the same
\* cell, so nothing is allocated and the value is the same
clone(st, v) == [v |-> v, st |-> st]

\* PrintFunc::call and PrintLnFunc::call
PrintCall(st, args, ending) ==
    LET text == WriteSeq(st, args)
    IN  IF text.ok THEN Ret(Ok(Void), Emit(st, text.s \o ending))
        ELSE Ret(Panic("fmt"), st)

\* IsEqual::call
IsEqualCall(st, args) ==
    Ret(Ok(Bool(IF Len(args) >= 2 THEN LenarEq(args[1], args[2]) ELSE FALSE)), st)

\* OkFunc::call and ErrFunc::call
VariantCall(st, args, variant) ==
    IF args = <<>> THEN Ret(Panic("remove"), st)
    ELSE Ret(Ok(Enum(variant, args[1])), st)

\* an isOk that would accept every Result
IsOkCallAnyVariant(st, args) ==
    IF args = <<>> THEN Ret(Panic("remove"), st)
    ELSE Ret(Ok(Bool(args[1].t = "Enum")), st)

\* IsOkFunc::call
IsOkCall(st, args) ==
    IF args = <<>> THEN Ret(Panic("remove"), st)
    ELSE Ret(Ok(Bool(args[1].t = "Enum" /\ args[1].variant = "Ok")), st)

\* an unwrap that would give Void for the other variant
UnwrapCallLenient(st, args, variant) ==
    IF args = <<>> THEN Ret(Panic("remove"), st)
    ELSE IF args[1].t # "Enum" THEN Ret(Ok(Void), st)
    ELSE IF args[1].variant = variant THEN Ret(Ok(args[1].value), st)
    ELSE Ret(Ok(Void), st)

\* UnwrapFunc::call and UnwrapErrFunc::call
UnwrapCall(st, args, variant) ==
    IF args = <<>> THEN Ret(Panic("remove"), st)
    ELSE IF args[1].t # "Enum" THEN Ret(Ok(Void), st)
    ELSE IF args[1].variant = variant THEN Ret(Ok(args[1].value), st)
    ELSE Ret(Err("WrongValue", variant), st)

\* RefFunc::call
RefCall(st, args) ==
    IF args = <<>> THEN Ret(Panic("remove"), st)
    ELSE LET addr == NewAddr(st)
         IN  Ret(Ok(Ref(addr, addr)),
                 Log(NewCell(st, args[1]), [e |-> "newref", addr |-> addr]))

\* AddFunc::call
AddCall(st, args) ==
    IF Len(args) < 2 THEN Ret(Panic("remove"), st)
    ELSE LET value == args[1]
         IN  IF value.t # "Ref" THEN Ret(Ok(Void), st)
             ELSE LET increment == as_integer(st.heap, args[2], {value.addr})
                  IN  IF increment = -2 THEN Ret(Panic("BorrowError"), st)
                      ELSE IF increment = -1 THEN Ret(Ok(Void), st)
                      ELSE LET heap   == set_integer(st.heap, value.addr, increment)
                               n      == as_integer(heap, heap[value.addr], {})
                               target == RootAddr(st.heap, value.addr)
                               result == IF n >= 0 THEN Usize(n) ELSE Void
                           IN  Ret(Ok(result),
                                   Log([st EXCEPT !.heap = heap],
                                       [e |-> "add", through |-> value, target |-> target,
                                        origin |-> RootOrigin(st.heap, value),
                                        before |-> st.heap[target], increment |-> increment,
                                        after |-> heap[target], result |-> result]))

\* SleepFunc::call
SleepCall(st, args) ==
    IF args = <<>> THEN Ret(Panic("remove"), st) ELSE Ret(Ok(Void), st)

\* history: the builtin fn of the Scope numbered inst looked up the handle rid
\* in its resources_files and found the file named `file`, or none
Used(st, fn, inst, rid, res) ==
    Log(st, [e |-> "use", fn |-> fn, inst |-> inst, rid |-> rid, res |-> res,
             file |-> IF SlabContains(st.files[inst + 1], rid)
                      THEN SlabGet(st.files[inst + 1], rid).path ELSE ""])

\* OpenFileFunc::call of the Scope numbered inst
OpenFileCall(st, inst, args) ==
    IF args = <<>> THEN Ret(Panic("index"), st)
    ELSE IF args[1].t \notin {"Bytes", "OwnedBytes"} THEN Ret(Panic("unwrap"), st)
    ELSE IF Concat(args[1].b) \notin DOMAIN FileSystem THEN Ret(Panic("unwrap"), st)
    ELSE LET ins == SlabInsert(st.files[inst + 1], [path |-> Concat(args[1].b), pos |-> 0])
         IN  Ret(Ok(Usize(ins.key)),
                 Log([st EXCEPT !.files[inst + 1] = ins.slab],
                     [e |-> "open", inst |-> inst, rid |-> ins.key,
                      file |-> Concat(args[1].b)]))

\* ToStringFunc::call of the Scope numbered inst
ToStringCall(st, inst, args) ==
    IF args = <<>> THEN Ret(Panic("index"), st)
    ELSE IF args[1].t # "Usize" THEN Ret(Ok(Void), st)
    ELSE IF ~SlabContains(st.files[inst + 1], args[1].n)
         THEN Ret(Panic("unwrap"), Used(st, "toString", inst, args[1].n, Panic("unwrap")))
    ELSE LET file == SlabGet(st.files[inst + 1], args[1].n)
             data == FileSystem[file.path]
             text == OwnedBytes(SubSeq(data, file.pos + 1, Len(data)))
         IN  Ret(Ok(text),
                 Used([st EXCEPT !.files[inst + 1].entries[args[1].n + 1].val.pos = Len(data)],
                      "toString", inst, args[1].n, Ok(text)))

(***************************************************************************)
(*                             EVALUATOR                                   *)
(***************************************************************************)

Object(st, key) == st.objects[key + 1]

IsBlock(st, key) == Object(st, key).type = "Block"

\* a statement of a Block came back with an error
NoteErr(st, r, path, is_last) ==
    IF r.k = "Err"
    THEN Log(st, [e |-> "err", inst |-> st.inst, path |-> path, err |-> r.err,
                  is_last |-> is_last])
    ELSE st

\* a call that would run the body in the Scope of its caller
EnterFunctionInherit(st, inst) == [st EXCEPT !.inst = inst]

\* Function::call, `let mut scope = Scope::default(); scope.setup_globals()`:
\* the body starts from the globals and nothing else
EnterFunction(st, inst) == [st EXCEPT !.tree = NewScopeTree(inst), !.inst = inst]

\* Function::call, the loop over arguments_block: one parameter per VarRef
RECURSIVE BindArguments(_, _, _, _)
BindArguments(st, objs, i, args) ==
    IF i > Len(objs) THEN Ret(Ok(Void), st)
    ELSE LET o == Object(st, objs[i])
         IN  IF o.type # "VarRef" THEN BindArguments(st, objs, i + 1, args)
             ELSE IF args = <<>> THEN Ret(Panic("remove"), st)
             ELSE BindArguments(
                      Log([st EXCEPT !.tree[<<>>] = MapInsert(@, o.var_name, Head(args))],
                          [e |-> "def", inst |-> st.inst, path |-> <<>>,
                           name |-> o.var_name, val |-> Head(args), how |-> "param"]),
                      objs, i + 1, Tail(args))

\* Function::call, the loop over capture_area
RECURSIVE InjectCaptures(_, _, _)
InjectCaptures(st, area, names) ==
    IF names = {} THEN st
    ELSE LET n == CHOOSE m \in names : TRUE
         IN  InjectCaptures(
                 Log([st EXCEPT !.tree[<<>>] = MapInsert(@, n, area[n])],
                     [e |-> "def", inst |-> st.inst, path |-> <<>>,
                      name |-> n, val |-> area[n], how |-> "capture"]),
                 area, names \ {n})

\* evaluate_object (FnDef), the loop that fills capture_area
RECURSIVE Capture(_, _, _, _, _)
Capture(st, objs, i, path, area) ==
    IF i > Len(objs) THEN [r |-> Ok(Void), st |-> st, area |-> area]
    ELSE LET o == Object(st, objs[i])
         IN  IF o.type # "VarRef" THEN Capture(st, objs, i + 1, path, area)
             ELSE LET var_value == get_variable(st.tree, o.var_name, path)
                      cloned    == clone(st, var_value.v)
                      addr      == NewAddr(cloned.st)
                  IN  IF var_value.k # "Ok" THEN [r |-> var_value, st |-> st, area |-> area]
                      ELSE Capture(Log(NewCell(cloned.st, cloned.v),
                                       [e |-> "captured", inst |-> st.inst, path |-> path,
                                        fn |-> Len(st.fns) + 1, name |-> o.var_name,
                                        val |-> cloned.v, addr |-> addr]),
                                   objs, i + 1, path,
                                   MapInsert(area, o.var_name, Ref(addr, addr)))

\* evaluate_object (VarRef): `Ok(var.clone())` or the error of get_variable
Referenced(st, name, path, found) ==
    IF found.k # "Ok"
    THEN Ret(found, Log(st, [e |-> "ref", inst |-> st.inst, path |-> path,
                             name |-> name, res |-> found]))
    ELSE Ret(Ok(clone(st, found.v).v),
             Log(clone(st, found.v).st,
                 [e |-> "ref", inst |-> st.inst, path |-> path, name |-> name,
                  res |-> Ok(clone(st, found.v).v)]))

\* evaluate_object (PropertyRef): what get_variable_by_path gave
PropertyRead(st, var_path, path, found) ==
    Ret(found, Log(st, [e |-> "prop", inst |-> st.inst, path |-> path,
                        var_path |-> var_path, res |-> found]))

\* thread::spawn and the insert into thread_locks
Spawn(st, o) ==
    LET task == Len(st.tasks) + 1
        ins  == SlabInsert(st.locks[st.inst + 1], task)
        id   == [t |-> "Usize", n |-> ins.key, task |-> task]
    IN  Ret(Ok(id),
            Log([st EXCEPT !.tasks = Append(@, [arguments |-> o.arguments,
                                                fn_name |-> o.fn_name,
                                                spawner |-> st.me,
                                                scope |-> st.inst,
                                                status |-> "spawned"]),
                           !.locks[st.inst + 1] = ins.slab],
                [e |-> "spawn", inst |-> st.inst, id |-> ins.key, task |-> task]))

Finished(st) == {t \in 1..Len(st.tasks) : st.tasks[t].status # "spawned"}

\* Every nested evaluation and every nested call goes through Do, which runs
\* evaluate_object or RuntimeFunction::call on the job it is handed
RECURSIVE Do(_)

\* evaluate_object(object, parser, scope, scope_path), from inside an evaluation
EvalNested(st, key, path) ==
    Do([op |-> "evaluate_object", st |-> st, key |-> key, path |-> path])

\* func.call(args, parser), from inside an evaluation
CallNested(st, f, args) ==
    Do([op |-> "call", st |-> st, f |-> f, args |-> args])


\* evaluate_object (Block), one turn of the loop
EvalBlockItem(st, tok, path, next_scope_id, is_last) ==
    IF IsBlock(st, tok) THEN
        LET id         == next_scope_id + 1
            scope_path == Append(path, id)
            entered    == Log([st EXCEPT !.tree = create_scope(@, path, id)],
                              [e |-> "enter", inst |-> st.inst, path |-> scope_path])
            return_val == EvalNested(entered, tok, scope_path)
            \* drop_scope is handed the path of the new scope, not of its parent
            dropped    == [return_val.st EXCEPT !.tree = drop_scope(@, scope_path, id)]
            left       == Log(dropped, [e |-> "exit", inst |-> st.inst, path |-> scope_path])
        IN  IF return_val.r.k = "Panic"
            THEN [r |-> return_val.r, st |-> return_val.st, next_scope_id |-> id]
            ELSE [r |-> return_val.r, st |-> NoteErr(left, return_val.r, path, is_last),
                  next_scope_id |-> id]
    ELSE
        LET res == EvalNested(st, tok, path)
        IN  [r |-> res.r, st |-> NoteErr(res.st, res.r, path, is_last),
             next_scope_id |-> next_scope_id]

\* evaluate_object (Block), the loop from its i-th object on
RECURSIVE EvalBlockFrom(_, _, _, _, _)
EvalBlockFrom(st, objs, i, path, next_scope_id) ==
    IF i > Len(objs) THEN Ret(Ok(Void), st)
    ELSE LET item == EvalBlockItem(st, objs[i], path, next_scope_id, i = Len(objs))
         IN  IF item.r.k = "Panic" \/ i = Len(objs) THEN Ret(item.r, item.st)
             ELSE EvalBlockFrom(item.st, objs, i + 1, path, item.next_scope_id)

\* the loop `for tok in objects { args.push(evaluate_object(tok)?) }`; `of`
\* is the place in the history of the call whose arguments these are
RECURSIVE EvalArguments(_, _, _, _, _, _)

\* a loop that would go on to the next argument after a failed one
RECURSIVE EvalArgumentsKeepGoing(_, _, _, _, _, _)
EvalArgumentsKeepGoing(st, objs, i, path, args, of) ==
    IF i > Len(objs) THEN [r |-> Ok(Void), st |-> st, args |-> args]
    ELSE LET res  == EvalNested(st, objs[i], path)
             told == Log(res.st, [e |-> "arg", of |-> of, k |-> i, res |-> res.r])
         IN  IF res.r.k = "Panic" THEN [r |-> res.r, st |-> told, args |-> args]
             ELSE EvalArgumentsKeepGoing(told, objs, i + 1, path,
                      Append(args, IF res.r.k = "Ok" THEN res.r.v ELSE Void), of)

EvalArguments(st, objs, i, path, args, of) ==
    IF i > Len(objs) THEN [r |-> Ok(Void), st |-> st, args |-> args]
    ELSE LET res  == EvalNested(st, objs[i], path)
             told == Log(res.st, [e |-> "arg", of |-> of, k |-> i, res |-> res.r])
         IN  IF res.r.k # "Ok" THEN [r |-> res.r, st |-> told, args |-> args]
             ELSE EvalArguments(told, objs, i + 1, path, Append(args, res.r.v), of)

\* evaluate_object (FunctionCall) of a function other than thread: the
\* arguments, then the call
Ordinary(st, o, path) ==
    LET begun == Log(st, [e |-> "begin", inst |-> st.inst, path |-> path,
                          name |-> o.fn_name,
                          arity |-> Len(Object(st, o.arguments).objects)])
        of    == Len(begun.log)
        args  == EvalArguments(begun, Object(st, o.arguments).objects, 1, path, <<>>, of)
        res   == Do([op |-> "call_function",
                     st |-> Log(args.st, [e |-> "invoke", of |-> of, args |-> args.args]),
                     name |-> o.fn_name, path |-> path, args |-> args.args])
    IN  IF args.r.k # "Ok"
        THEN Ret(args.r, Log(args.st, [e |-> "end", of |-> of, res |-> args.r]))
        ELSE Ret(res.r, Log(res.st, [e |-> "end", of |-> of, res |-> res.r]))

\* `func.borrow_mut().call(args, parser)`
BorrowCall(st, f, args) ==
    IF Borrowed(st, f)
    THEN Ret(Panic("BorrowMutError"),
             Log(st, [e |-> "reenter", inst |-> st.inst, f |-> f,
                      res |-> Panic("BorrowMutError")]))
    ELSE LET res == CallNested([st EXCEPT !.borrowed = @ \cup {<<f.kind, f.id>>}], f, args)
         IN  Ret(res.r, [res.st EXCEPT !.borrowed = @ \ {<<f.kind, f.id>>}])

\* Scope::call_function
call_function(st, name, path, args) ==
    LET func == get_function(st.tree, st.heap, name, path)
    IN  IF func.k = "Panic" THEN Ret(func, st)
        ELSE IF func.v.t = "Void"
             THEN Ret(Err("VariableNotFound", name),
                      Log(st, [e |-> "nofn", inst |-> st.inst, path |-> path, name |-> name,
                               res |-> Err("VariableNotFound", name)]))
        ELSE BorrowCall(Log(st, [e |-> "resolve", inst |-> st.inst, path |-> path,
                                 name |-> name, f |-> func.v]),
                        func.v, args)

\* Function::call of the anonymous function numbered id
FunctionCallBody(st, id, args) ==
    LET f       == st.fns[id]
        inst    == NewInst(st)
        called  == Log(EnterFunction(NewScope(st), inst),
                       [e |-> "call", inst |-> inst, fn |-> id, from |-> st.inst])
        bound   == BindArguments(called, Object(st, f.arguments_block).objects, 1, args)
        filled  == InjectCaptures(bound.st, f.capture_area, DOMAIN f.capture_area)
        res     == EvalNested(filled, f.block_value, <<>>)
    IN  IF bound.r.k # "Ok" THEN Ret(bound.r, bound.st)
        ELSE Ret(res.r, [res.st EXCEPT !.tree = st.tree, !.inst = st.inst])

\* the calls that IterFunc::call makes, one per item; `of` is the place in the
\* history of the iter call that makes them
RECURSIVE IterCalls(_, _, _, _, _)
IterCalls(st, fun, items, i, of) ==
    IF i > Len(items) THEN [r |-> Ok(Void), st |-> st, n |-> Len(items)]
    ELSE LET res == CallNested(Log(st, [e |-> "itercall", of |-> of, args |-> items[i]]),
                               fun, items[i])
         IN  IF res.r.k # "Ok" THEN [r |-> res.r, st |-> res.st, n |-> i]
             ELSE IterCalls(res.st, fun, items, i + 1, of)

\* a loop over a list that would count the items from one
EnumerateFromOne(items) == [k \in 1..Len(items) |-> <<items[k], Usize(k)>>]

\* IterFunc::call, `items.into_iter().enumerate()`: the arguments of the calls
Enumerate(items) == [k \in 1..Len(items) |-> <<items[k], Usize(k - 1)>>]

\* IterFunc::call of the Scope numbered inst
IterCall(st, inst, args) ==
    IF Len(args) < 2 THEN Ret(Panic("remove"), st)
    ELSE LET iterator == args[1]
             fun      == args[2]
             files    == st.files[inst + 1]
             file     == SlabGet(files, iterator.n)
             data     == FileSystem[file.path]
             items    ==
                 CASE iterator.t = "Usize" ->
                        [k \in 1..(Len(data) - file.pos) |-> <<Byte(data[file.pos + k])>>]
                   [] iterator.t \in {"Bytes", "OwnedBytes"} ->
                        [k \in 1..Len(iterator.b) |-> <<Byte(iterator.b[k])>>]
                   [] iterator.t = "List" -> Enumerate(iterator.items)
                   [] OTHER -> <<>>
             held     == Log([st EXCEPT !.borrowed = @ \cup {<<fun.kind, fun.id>>}],
                             [e |-> "iter", inst |-> inst, iterator |-> iterator])
             calls    == IterCalls(held, fun, items, 1, Len(held.log))
             read     == IF iterator.t = "Usize"
                         THEN Used([calls.st EXCEPT
                                       !.files[inst + 1].entries[iterator.n + 1].val.pos =
                                           @ + calls.n],
                                   "iter", inst, iterator.n, calls.r)
                         ELSE calls.st
         IN  IF fun.t # "Function" THEN Ret(Ok(Void), st)
             ELSE IF Borrowed(st, fun) THEN Ret(Panic("BorrowMutError"), st)
             ELSE IF iterator.t = "Usize" /\ ~SlabContains(files, iterator.n)
                  THEN Ret(Panic("unwrap"),
                           Used(st, "iter", inst, iterator.n, Panic("unwrap")))
             ELSE Ret(calls.r,
                      Log([read EXCEPT !.borrowed = @ \ {<<fun.kind, fun.id>>}],
                          [e |-> "iterend", of |-> Len(held.log), res |-> calls.r]))

\* a task that would evaluate in the scope tree it was spawned from
StartThreadShared(st, inst) == [NewScope(st) EXCEPT !.inst = inst]

\* the closure handed to thread::spawn, `let mut scope = Scope::default();
\* scope.setup_globals()`: the task starts from the globals and nothing else
StartThread(st, inst) == [NewScope(st) EXCEPT !.tree = NewScopeTree(inst), !.inst = inst]

\* the closure handed to thread::spawn, run by task t from start to end
RunThread(st, t) ==
    LET task    == st.tasks[t]
        inst    == NewInst(st)
        started == [StartThread(st, inst) EXCEPT !.me = t, !.borrowed = {}]
        args    == EvalArguments(started, Object(st, task.arguments).objects, 1, <<>>, <<>>, 0)
        noted   == Log(args.st, [e |-> "threadargs", task |-> t, inst |-> inst,
                                 spawner |-> task.spawner, scope |-> task.scope,
                                 res |-> args.r])
        res     == call_function(noted, task.fn_name, <<>>, args.args)
        last    == IF args.r.k # "Ok" THEN noted ELSE res.st
        status  == IF args.r.k = "Ok" /\ res.r.k = "Ok" THEN "finished" ELSE "panicked"
    IN  [last EXCEPT !.tasks[t].status = status,
                     !.tree = st.tree, !.inst = st.inst, !.me = st.me,
                     !.borrowed = st.borrowed]

\* WaitFunc::call of the Scope numbered inst
WaitCall(st, inst, args) ==
    IF args = <<>> THEN Ret(Panic("remove"), st)
    ELSE IF args[1].t # "Usize" THEN Ret(Ok(Void), st)
    ELSE IF ~SlabContains(st.locks[inst + 1], args[1].n) THEN Ret(Panic("invalid key"), st)
    ELSE LET task    == SlabGet(st.locks[inst + 1], args[1].n)
             removed == [st EXCEPT !.locks[inst + 1] = SlabRemove(@, args[1].n)]
             joined  == IF removed.tasks[task].status = "spawned"
                        THEN RunThread(removed, task) ELSE removed
             res     == IF joined.tasks[task].status = "panicked"
                        THEN Panic("join") ELSE Ok(Void)
         IN  Ret(res, Log(joined, [e |-> "wait", inst |-> inst, handle |-> args[1],
                                   joined |-> task, res |-> res,
                                   status |-> joined.tasks[task].status,
                                   finished |-> Finished(joined),
                                   outlen |-> Len(joined.out)]))

\* RuntimeFunction::call of the function object f
Invoke(st, f, args) ==
    CASE f.kind = "Anonymous" -> FunctionCallBody(st, f.id, args)
      [] f.kind = "print" -> PrintCall(st, args, "")
      [] f.kind = "println" -> PrintCall(st, args, "\n")
      [] f.kind = "isEqual" -> IsEqualCall(st, args)
      [] f.kind = "list" -> Ret(Ok(List(args)), st)
      [] f.kind = "iter" -> IterCall(st, f.id, args)
      [] f.kind = "thread" ->
            IF args = <<>> THEN Ret(Panic("remove"), st)
            ELSE IF Head(args).t # "Function" THEN Ret(Ok(Void), st)
            ELSE LET res == BorrowCall(st, Head(args), Tail(args))
                 IN  IF res.r.k = "Ok" THEN Ret(Ok(Void), res.st) ELSE res
      [] f.kind = "sleep" -> SleepCall(st, args)
      [] f.kind = "wait" -> WaitCall(st, f.id, args)
      [] f.kind = "Ok" -> VariantCall(st, args, "Ok")
      [] f.kind = "Err" -> VariantCall(st, args, "Err")
      [] f.kind = "isOk" -> IsOkCall(st, args)
      [] f.kind = "unwrap" -> UnwrapCall(st, args, "Ok")
      [] f.kind = "unwrapErr" -> UnwrapCall(st, args, "Err")
      [] f.kind = "ref" -> RefCall(st, args)
      [] f.kind = "add" -> AddCall(st, args)
      [] f.kind = "openFile" -> OpenFileCall(st, f.id, args)
      [] f.kind = "toString" -> ToStringCall(st, f.id, args)

\* evaluate_object
evaluate_object(st, key, path) ==
    LET o == Object(st, key)
    IN  CASE o.type = "Block" ->
              EvalBlockFrom(st, o.objects, 1, path, IF path = <<>> THEN 0 ELSE Last(path))
          [] o.type = "VarDef" ->
              LET res == EvalNested(st, o.block_value, path)
              IN  IF res.r.k # "Ok" THEN res
                  ELSE Ret(Ok(Void),
                           Log([res.st EXCEPT
                                   !.tree = define_variable(@, o.var_name, path, res.r.v)],
                               [e |-> "def", inst |-> st.inst, path |-> path,
                                name |-> o.var_name, val |-> res.r.v, how |-> "let"]))
          [] o.type = "FunctionCall" ->
              IF o.fn_name = "thread" THEN Spawn(st, o)
              ELSE Ordinary(st, o, path)
          [] o.type = "StringVal" -> Ret(Ok(Str(o.value)), st)
          [] o.type = "BytesVal" -> Ret(Ok(Bytes(o.value)), st)
          [] o.type = "NumberVal" -> Ret(Ok(Usize(o.value)), st)
          [] o.type = "VarRef" ->
              Referenced(st, o.var_name, path, get_variable(st.tree, o.var_name, path))
          [] o.type = "PropertyRef" ->
              PropertyRead(st, o.path, path, get_variable_by_path(st.tree, o.path, path))
          [] o.type = "FnDef" ->
              LET cap == Capture(st, Object(st, o.capture_value).objects, 1, path, EmptyMap)
                  id  == Len(cap.st.fns) + 1
              IN  IF cap.r.k # "Ok" THEN Ret(cap.r, cap.st)
                  ELSE Ret(Ok(Function("Anonymous", id)),
                           [cap.st EXCEPT !.fns = Append(@,
                               [capture_area    |-> cap.area,
                                arguments_block |-> o.arguments_block,
                                block_value     |-> o.block_value])])
          [] o.type = "IfDef" ->
              LET expr_res == EvalNested(st, o.condition_block, path)
              IN  IF expr_res.r.k # "Ok" THEN expr_res
                  ELSE IF LenarEq(Bool(TRUE), expr_res.r.v)
                       THEN EvalNested(expr_res.st, o.block_value, path)
                       ELSE Ret(Ok(Void), expr_res.st)

Do(job) ==
    CASE job.op = "evaluate_object" -> evaluate_object(job.st, job.key, job.path)
      [] job.op = "call" -> Invoke(job.st, job.f, job.args)
      [] job.op = "statement" ->
            EvalBlockItem(job.st, job.key, job.path, job.next_scope_id, job.is_last)
      [] job.op = "thread" -> RunThread(job.st, job.task)
      [] job.op = "call_function" -> call_function(job.st, job.name, job.path, job.args)

(***************************************************************************)
(*                             PROGRAMS                                    *)
(*                                                                         *)
(* Source text is a sequence of characters.  Each fragment below is shown  *)
(* as text in the comment above it.                                        *)
(***************************************************************************)

\* let a = "1"; { let a = "2"; println(a); { println(a); } } println(a);
SrcShadow ==
    <<"l", "e", "t", " ", "a", " ", "=", " ", "\"", "1", "\"", ";", " ", "{", " ", "l",
      "e", "t", " ", "a", " ", "=", " ", "\"", "2", "\"", ";", " ", "p", "r", "i", "n",
      "t", "l", "n", "(", "a", ")", ";", " ", "{", " ", "p", "r", "i", "n", "t", "l",
      "n", "(", "a", ")", ";", " ", "}", " ", "}", " ", "p", "r", "i", "n", "t", "l",
      "n", "(", "a", ")", ";">>

\* let v = 7; { let v = print(); println(v); } println(v);
SrcVoidLet ==
    <<"l", "e", "t", " ", "v", " ", "=", " ", "7", ";", " ", "{", " ", "l", "e", "t",
      " ", "v", " ", "=", " ", "p", "r", "i", "n", "t", "(", ")", ";", " ", "p", "r",
      "i", "n", "t", "l", "n", "(", "v", ")", ";", " ", "}", " ", "p", "r", "i", "n",
      "t", "l", "n", "(", "v", ")", ";">>

\* x; println("a");
SrcLostError ==
    <<"x", ";", " ", "p", "r", "i", "n", "t", "l", "n", "(", "\"", "a", "\"", ")", ";">>

\* let r = ref(0); let s = r; add(r 5); println(s); add(s 5); println(r);
SrcRefAdd ==
    <<"l", "e", "t", " ", "r", " ", "=", " ", "r", "e", "f", "(", "0", ")", ";", " ",
      "l", "e", "t", " ", "s", " ", "=", " ", "r", ";", " ", "a", "d", "d", "(", "r",
      " ", "5", ")", ";", " ", "p", "r", "i", "n", "t", "l", "n", "(", "s", ")", ";",
      " ", "a", "d", "d", "(", "s", " ", "5", ")", ";", " ", "p", "r", "i", "n", "t",
      "l", "n", "(", "r", ")", ";">>

\* let a = 1; let b = 2; let f = fn(p) [a] { println(a p); b }; f(3);
SrcClosure ==
    <<"l", "e", "t", " ", "a", " ", "=", " ", "1", ";", " ", "l", "e", "t", " ", "b",
      " ", "=", " ", "2", ";", " ", "l", "e", "t", " ", "f", " ", "=", " ", "f", "n",
      "(", "p", ")", " ", "[", "a", "]", " ", "{", " ", "p", "r", "i", "n", "t", "l",
      "n", "(", "a", " ", "p", ")", ";", " ", "b", " ", "}", ";", " ", "f", "(", "3",
      ")", ";">>

\* let h = thread(fn(v) [] { println(v) } "t"); wait(h); println("m");
SrcThread ==
    <<"l", "e", "t", " ", "h", " ", "=", " ", "t", "h", "r", "e", "a", "d", "(", "f",
      "n", "(", "v", ")", " ", "[", "]", " ", "{", " ", "p", "r", "i", "n", "t", "l",
      "n", "(", "v", ")", " ", "}", " ", "\"", "t", "\"", ")", ";", " ", "w", "a", "i",
      "t", "(", "h", ")", ";", " ", "p", "r", "i", "n", "t", "l", "n", "(", "\"", "m",
      "\"", ")", ";">>

\* let m = "x"; let g = thread(fn(v) [] { println(v) } m); wait(g);
SrcThreadVar ==
    <<"l", "e", "t", " ", "m", " ", "=", " ", "\"", "x", "\"", ";", " ", "l", "e", "t",
      " ", "g", " ", "=", " ", "t", "h", "r", "e", "a", "d", "(", "f", "n", "(", "v",
      ")", " ", "[", "]", " ", "{", " ", "p", "r", "i", "n", "t", "l", "n", "(", "v",
      ")", " ", "}", " ", "m", ")", ";", " ", "w", "a", "i", "t", "(", "g", ")", ";">>

\* let h = thread(fn(v) [] { println(v) } "t"); let w = fn(k) [] { let g = thread(fn(v) [] { println(v) } "i"); wait(k) }; w(h); println("m");
SrcNestedWait ==
    <<"l", "e", "t", " ", "h", " ", "=", " ", "t", "h", "r", "e", "a", "d", "(", "f",
      "n", "(", "v", ")", " ", "[", "]", " ", "{", " ", "p", "r", "i", "n", "t", "l",
      "n", "(", "v", ")", " ", "}", " ", "\"", "t", "\"", ")", ";", " ", "l", "e", "t",
      " ", "w", " ", "=", " ", "f", "n", "(", "k", ")", " ", "[", "]", " ", "{", " ",
      "l", "e", "t", " ", "g", " ", "=", " ", "t", "h", "r", "e", "a", "d", "(", "f",
      "n", "(", "v", ")", " ", "[", "]", " ", "{", " ", "p", "r", "i", "n", "t", "l",
      "n", "(", "v", ")", " ", "}", " ", "\"", "i", "\"", ")", ";", " ", "w", "a", "i",
      "t", "(", "k", ")", " ", "}", ";", " ", "w", "(", "h", ")", ";", " ", "p", "r",
      "i", "n", "t", "l", "n", "(", "\"", "m", "\"", ")", ";">>

\* let r = ref(0); let m = fn(v) [r] { add(v 5); add(r 6) }; m(r); println(r);
SrcCapturedRef ==
    <<"l", "e", "t", " ", "r", " ", "=", " ", "r", "e", "f", "(", "0", ")", ";", " ",
      "l", "e", "t", " ", "m", " ", "=", " ", "f", "n", "(", "v", ")", " ", "[", "r",
      "]", " ", "{", " ", "a", "d", "d", "(", "v", " ", "5", ")", ";", " ", "a", "d",
      "d", "(", "r", " ", "6", ")", " ", "}", ";", " ", "m", "(", "r", ")", ";", " ",
      "p", "r", "i", "n", "t", "l", "n", "(", "r", ")", ";">>

\* let h = thread(fn(v) [] { unwrap(Err(v)) } "x"); wait(h);
SrcFailingTask ==
    <<"l", "e", "t", " ", "h", " ", "=", " ", "t", "h", "r", "e", "a", "d", "(", "f",
      "n", "(", "v", ")", " ", "[", "]", " ", "{", " ", "u", "n", "w", "r", "a", "p",
      "(", "E", "r", "r", "(", "v", ")", ")", " ", "}", " ", "\"", "x", "\"", ")", ";",
      " ", "w", "a", "i", "t", "(", "h", ")", ";">>

\* let h = thread(fn(v) [] { println(v) } "t");
SrcSpawnOnly ==
    <<"l", "e", "t", " ", "h", " ", "=", " ", "t", "h", "r", "e", "a", "d", "(", "f",
      "n", "(", "v", ")", " ", "[", "]", " ", "{", " ", "p", "r", "i", "n", "t", "l",
      "n", "(", "v", ")", " ", "}", " ", "\"", "t", "\"", ")", ";">>

\* wait(h); println(h);
SrcUseHandle ==
    <<"w", "a", "i", "t", "(", "h", ")", ";", " ", "p", "r", "i", "n", "t", "l", "n",
      "(", "h", ")", ";">>

\* println(a);
SrcUseA ==
    <<"p", "r", "i", "n", "t", "l", "n", "(", "a", ")", ";">>

\* let m = "x"; let h = thread(fn(v) [] { let z = v; m } "t"); println(z);
SrcTaskLet ==
    <<"l", "e", "t", " ", "m", " ", "=", " ", "\"", "x", "\"", ";", " ", "l", "e", "t",
      " ", "h", " ", "=", " ", "t", "h", "r", "e", "a", "d", "(", "f", "n", "(", "v",
      ")", " ", "[", "]", " ", "{", " ", "l", "e", "t", " ", "z", " ", "=", " ", "v",
      ";", " ", "m", " ", "}", " ", "\"", "t", "\"", ")", ";", " ", "p", "r", "i", "n",
      "t", "l", "n", "(", "z", ")", ";">>

\* let f = openFile("f"); let g = fn(x) [] { println(toString(x)) }; g(f);
SrcFileInClosure ==
    <<"l", "e", "t", " ", "f", " ", "=", " ", "o", "p", "e", "n", "F", "i", "l", "e",
      "(", "\"", "f", "\"", ")", ";", " ", "l", "e", "t", " ", "g", " ", "=", " ", "f",
      "n", "(", "x", ")", " ", "[", "]", " ", "{", " ", "p", "r", "i", "n", "t", "l",
      "n", "(", "t", "o", "S", "t", "r", "i", "n", "g", "(", "x", ")", ")", " ", "}",
      ";", " ", "g", "(", "f", ")", ";">>

\* nope(1);
SrcNoFn ==
    <<"n", "o", "p", "e", "(", "1", ")", ";">>

\* iter(list("a" "b") fn(x i) [] { println(x i) }); iter(list("a" "b") fn(x i) [] { y });
SrcIterList ==
    <<"i", "t", "e", "r", "(", "l", "i", "s", "t", "(", "\"", "a", "\"", " ", "\"",
      "b", "\"", ")", " ", "f", "n", "(", "x", " ", "i", ")", " ", "[", "]", " ", "{",
      " ", "p", "r", "i", "n", "t", "l", "n", "(", "x", " ", "i", ")", " ", "}", ")",
      ";", " ", "i", "t", "e", "r", "(", "l", "i", "s", "t", "(", "\"", "a", "\"", " ",
      "\"", "b", "\"", ")", " ", "f", "n", "(", "x", " ", "i", ")", " ", "[", "]", " ",
      "{", " ", "y", " ", "}", ")", ";">>

\* println(Lenar.version Lenar.nope Lenar.version.nope Lenar.nope.version);
SrcPropPath ==
    <<"p", "r", "i", "n", "t", "l", "n", "(", "L", "e", "n", "a", "r", ".", "v", "e",
      "r", "s", "i", "o", "n", " ", "L", "e", "n", "a", "r", ".", "n", "o", "p", "e",
      " ", "L", "e", "n", "a", "r", ".", "v", "e", "r", "s", "i", "o", "n", ".", "n",
      "o", "p", "e", " ", "L", "e", "n", "a", "r", ".", "n", "o", "p", "e", ".", "v",
      "e", "r", "s", "i", "o", "n", ")", ";">>

\* let a = 1; let f = fn() [a] { println(isEqual(a 1)); a }; let a = 2; f();
SrcSnapshot ==
    <<"l", "e", "t", " ", "a", " ", "=", " ", "1", ";", " ", "l", "e", "t", " ", "f",
      " ", "=", " ", "f", "n", "(", ")", " ", "[", "a", "]", " ", "{", " ", "p", "r",
      "i", "n", "t", "l", "n", "(", "i", "s", "E", "q", "u", "a", "l", "(", "a", " ",
      "1", ")", ")", ";", " ", "a", " ", "}", ";", " ", "l", "e", "t", " ", "a", " ",
      "=", " ", "2", ";", " ", "f", "(", ")", ";">>

\* let g = fn(x) [] { println("o" x) }; { let g = fn(x) [] { println("i") }; g(1); { g(2); } } g(3); { let g = 4; g(5); }
SrcInnermost ==
    <<"l", "e", "t", " ", "g", " ", "=", " ", "f", "n", "(", "x", ")", " ", "[", "]",
      " ", "{", " ", "p", "r", "i", "n", "t", "l", "n", "(", "\"", "o", "\"", " ", "x",
      ")", " ", "}", ";", " ", "{", " ", "l", "e", "t", " ", "g", " ", "=", " ", "f",
      "n", "(", "x", ")", " ", "[", "]", " ", "{", " ", "p", "r", "i", "n", "t", "l",
      "n", "(", "\"", "i", "\"", ")", " ", "}", ";", " ", "g", "(", "1", ")", ";", " ",
      "{", " ", "g", "(", "2", ")", ";", " ", "}", " ", "}", " ", "g", "(", "3", ")",
      ";", " ", "{", " ", "l", "e", "t", " ", "g", " ", "=", " ", "4", ";", " ", "g",
      "(", "5", ")", ";", " ", "}">>

\* println(isEqual(1 2) "b"); println("a" nope "c"); println(list(y) "d");
SrcArgOrder ==
    <<"p", "r", "i", "n", "t", "l", "n", "(", "i", "s", "E", "q", "u", "a", "l", "(",
      "1", " ", "2", ")", " ", "\"", "b", "\"", ")", ";", " ", "p", "r", "i", "n", "t",
      "l", "n", "(", "\"", "a", "\"", " ", "n", "o", "p", "e", " ", "\"", "c", "\"",
      ")", ";", " ", "p", "r", "i", "n", "t", "l", "n", "(", "l", "i", "s", "t", "(",
      "y", ")", " ", "\"", "d", "\"", ")", ";">>

\* let f = fn(g d) [] { if(isEqual(d 1)) { g(g 2) } println(d) }; f(f 1);
SrcReenter ==
    <<"l", "e", "t", " ", "f", " ", "=", " ", "f", "n", "(", "g", " ", "d", ")", " ",
      "[", "]", " ", "{", " ", "i", "f", "(", "i", "s", "E", "q", "u", "a", "l", "(",
      "d", " ", "1", ")", ")", " ", "{", " ", "g", "(", "g", " ", "2", ")", " ", "}",
      " ", "p", "r", "i", "n", "t", "l", "n", "(", "d", ")", " ", "}", ";", " ", "f",
      "(", "f", " ", "1", ")", ";">>

\* let a = 1; let f = fn() [a] { println(a); add(a 5) }; f(); f();
SrcCounter ==
    <<"l", "e", "t", " ", "a", " ", "=", " ", "1", ";", " ", "l", "e", "t", " ", "f",
      " ", "=", " ", "f", "n", "(", ")", " ", "[", "a", "]", " ", "{", " ", "p", "r",
      "i", "n", "t", "l", "n", "(", "a", ")", ";", " ", "a", "d", "d", "(", "a", " ",
      "5", ")", " ", "}", ";", " ", "f", "(", ")", ";", " ", "f", "(", ")", ";">>

\* { let a = { 1 }; if(isEqual(a 1)) { { println(a); } } { println(a { 2 }); } } println("z");
SrcDeep ==
    <<"{", " ", "l", "e", "t", " ", "a", " ", "=", " ", "{", " ", "1", " ", "}", ";",
      " ", "i", "f", "(", "i", "s", "E", "q", "u", "a", "l", "(", "a", " ", "1", ")",
      ")", " ", "{", " ", "{", " ", "p", "r", "i", "n", "t", "l", "n", "(", "a", ")",
      ";", " ", "}", " ", "}", " ", "{", " ", "p", "r", "i", "n", "t", "l", "n", "(",
      "a", " ", "{", " ", "2", " ", "}", ")", ";", " ", "}", " ", "}", " ", "p", "r",
      "i", "n", "t", "l", "n", "(", "\"", "z", "\"", ")", ";">>

Fragments ==
    [Shadow      |-> SrcShadow,
     VoidLet     |-> SrcVoidLet,
     LostError   |-> SrcLostError,
     RefAdd      |-> SrcRefAdd,
     Closure     |-> SrcClosure,
     Thread      |-> SrcThread,
     ThreadVar   |-> SrcThreadVar,
     NestedWait  |-> SrcNestedWait,
     CapturedRef |-> SrcCapturedRef,
     FailingTask |-> SrcFailingTask,
     SpawnOnly   |-> SrcSpawnOnly,
     UseHandle   |-> SrcUseHandle,
     UseA        |-> SrcUseA,
     TaskLet |-> SrcTaskLet,
     FileInClosure |-> SrcFileInClosure,
     NoFn |-> SrcNoFn,
     IterList |-> SrcIterList,
     PropPath |-> SrcPropPath,
     Snapshot |-> SrcSnapshot,
     Innermost |-> SrcInnermost,
     ArgOrder |-> SrcArgOrder,
     Reenter |-> SrcReenter,
     Counter |-> SrcCounter,
     Deep |-> SrcDeep]

\* the programs the host is given: each is the sequence of fragments that it
\* parses, one Parser::parse call per fragment
Programs ==
    {<<"Shadow">>, <<"VoidLet">>, <<"LostError">>, <<"RefAdd">>, <<"Closure">>,
     <<"Thread">>, <<"ThreadVar">>, <<"NestedWait">>, <<"CapturedRef">>,
     <<"FailingTask">>, <<"SpawnOnly", "UseHandle">>, <<"TaskLet">>,
     <<"FileInClosure">>,
     <<"NoFn">>,
     <<"IterList">>,
     <<"PropPath">>,
     <<"Snapshot">>,
     <<"Innermost">>,
     <<"ArgOrder">>,
     <<"Reenter">>,
     <<"Counter">>,
     <<"Deep">>,
     <<"Shadow", "UseA">>}

\* how many runs the host makes
MaxRuns == 2

(***************************************************************************)
(*                           STATE MACHINE                                 *)
(*                                                                         *)
(* A host owns one Parser and one Scope S.  It parses a fragment into the  *)
(* parser, runs the program on S (Runtime::run_with_scope) or on a fresh   *)
(* Scope (Runtime::evaluate), and may parse and run again.  The host's     *)
(* evaluator takes one statement of the root block per step; a spawned     *)
(* thread runs between two such steps, or when its handle is joined.       *)
(***************************************************************************)

VARIABLES
    parser,           \* the host's Parser: objects and global_block
    scope,            \* the host's Scope S, as a scope tree
    run,              \* the host's evaluator: position in the root block
    heap,             \* cells behind Ref values
    fns,              \* anonymous functions
    thread_locks,     \* thread_locks of every Scope, by Scope number
    resources_files,  \* resources_files of every Scope, by Scope number
    tasks,            \* spawned threads
    stdout,           \* output so far
    ninst,            \* number of Scopes created
    crashed,          \* the host thread panicked
    log,              \* history: events of the evaluation
    sources,          \* history: the fragments parsed
    results,          \* history: what each run returned
    input,            \* parser study: the two fragments
    whole,            \* parser study: a second Parser, given both at once
    loop,             \* parser study: the locals of a Parser::parse in progress
    stage,            \* parser study: which parses were made
    channels_pool,    \* channel study: the pool of channels behind its mutex
    callers           \* channel study: the threads that call channel, send and recv

vars == <<parser, scope, run, heap, fns, thread_locks, resources_files, tasks, stdout,
          ninst, crashed, log, sources, results, input, whole, loop, stage,
          channels_pool, callers>>

runtimeVars == <<scope, run, heap, fns, thread_locks, resources_files, tasks, stdout,
                 ninst, log, results>>

studyVars == <<input, whole, loop, stage>>

channelVars == <<channels_pool, callers>>

\* ChannelsPool::default(): an unlocked mutex around an empty slab
NewPool == [lock |-> 0, poisoned |-> FALSE, slab |-> <<>>]

\* no thread that calls a channel function yet
NoCallers == <<>>

Idle == [active |-> FALSE, no |-> 0, i |-> 0, next_scope_id |-> 0, inst |-> 0,
         own |-> FALSE, tree |-> <<>>, parsed |-> 0]

Init ==
    /\ parser = NewParser
    /\ scope = NewScopeTree(0)
    /\ run = Idle
    /\ heap = <<>>
    /\ fns = <<>>
    /\ thread_locks = <<SlabNew>>
    /\ resources_files = <<SlabNew>>
    /\ tasks = <<>>
    /\ stdout = <<>>
    /\ ninst = 1
    /\ crashed = FALSE
    /\ log = <<>>
    /\ sources = <<>>
    /\ results = <<>>
    /\ input = <<>>
    /\ whole = NewParser
    /\ loop = ParseStart(NewParser, <<>>)
    /\ stage = "runtime"
    /\ channels_pool = NewPool
    /\ callers = NoCallers

RootObjects == parser.objects[parser.global_block + 1].objects

\* the evaluator's view of the state, on Scope `inst` whose tree is `tree`
State(tree, inst) ==
    [objects |-> parser.objects, tree |-> tree, inst |-> inst, me |-> 0, borrowed |-> {},
     heap |-> heap, fns |-> fns, locks |-> thread_locks, files |-> resources_files,
     tasks |-> tasks, out |-> stdout, ninst |-> ninst, log |-> log,
     run |-> run.no, stmt |-> run.i]

Commit(st) ==
    /\ heap' = st.heap
    /\ fns' = st.fns
    /\ thread_locks' = st.locks
    /\ resources_files' = st.files
    /\ tasks' = st.tasks
    /\ stdout' = st.out
    /\ ninst' = st.ninst
    /\ log' = st.log

\* the fragments parsed so far
Given == [k \in 1..Len(sources) |-> sources[k].name]

\* what Parser::parse leaves behind
Parsed(f, p) ==
    /\ parser' = p.parser
    /\ crashed' = p.panic
    /\ sources' = Append(sources,
           [name |-> f, size |-> Len(p.parser.objects[p.parser.global_block + 1].objects)])

\* Parser::parse(code) on the host's parser
ParseFragment(f) ==
    /\ stage = "runtime"
    /\ ~run.active /\ ~crashed
    /\ \E program \in Programs : IsPrefix(Append(Given, f), program)
    /\ Parsed(f, Parse(parser, Fragments[f]))
    /\ UNCHANGED <<runtimeVars, studyVars, channelVars>>

CanRun ==
    /\ stage = "runtime"
    /\ ~run.active /\ ~crashed
    /\ sources # <<>>
    /\ run.no < MaxRuns

Begin(inst, own) ==
    [active |-> RootObjects # <<>>, no |-> run.no + 1, i |-> 1, next_scope_id |-> 0,
     inst |-> inst, own |-> own, tree |-> IF own THEN NewScopeTree(inst) ELSE <<>>,
     parsed |-> Len(sources)]

Outcome(r, tree, own) ==
    [run |-> run.no, r |-> r, own |-> own, variables |-> tree[<<>>],
     size |-> Len(RootObjects)]

\* Runtime::run_with_scope(S, parser): entry
RunWithScope ==
    /\ CanRun
    /\ run' = Begin(0, FALSE)
    /\ results' = IF RootObjects = <<>>
                  THEN Append(results, [Outcome(Ok(Void), scope, FALSE) EXCEPT !.run = @ + 1])
                  ELSE results
    /\ UNCHANGED <<parser, scope, heap, fns, thread_locks, resources_files, tasks, stdout,
                   ninst, crashed, log, sources, studyVars, channelVars>>

\* Runtime::evaluate(parser): a fresh Scope with the globals, then the run
Evaluate ==
    /\ CanRun
    /\ run' = Begin(ninst, TRUE)
    /\ ninst' = ninst + 1
    /\ thread_locks' = Append(thread_locks, SlabNew)
    /\ resources_files' = Append(resources_files, SlabNew)
    /\ results' = IF RootObjects = <<>>
                  THEN Append(results,
                           [Outcome(Ok(Void), NewScopeTree(ninst), TRUE) EXCEPT !.run = @ + 1])
                  ELSE results
    /\ UNCHANGED <<parser, scope, heap, fns, tasks, stdout, crashed, log, sources, studyVars, channelVars>>

\* what the turn of the loop for object run.i leaves behind
Advance(item, is_last) ==
    /\ Commit(item.st)
    /\ crashed' = (item.r.k = "Panic")
    /\ scope' = IF run.own THEN scope ELSE item.st.tree
    /\ run' = [run EXCEPT !.active = ~(item.r.k = "Panic" \/ is_last),
                          !.i = @ + 1,
                          !.next_scope_id = item.next_scope_id,
                          !.tree = IF run.own THEN item.st.tree ELSE @]
    /\ results' = IF is_last /\ item.r.k # "Panic"
                  THEN Append(results, Outcome(item.r, item.st.tree, run.own))
                  ELSE results

\* evaluate_object on the root block: the turn of the loop for object run.i
StepMain ==
    /\ stage = "runtime"
    /\ run.active /\ ~crashed
    /\ Advance(Do([op |-> "statement",
                   st |-> State(IF run.own THEN run.tree ELSE scope, run.inst),
                   key |-> RootObjects[run.i], path |-> <<>>,
                   next_scope_id |-> run.next_scope_id,
                   is_last |-> run.i = Len(RootObjects)]),
               run.i = Len(RootObjects))
    /\ UNCHANGED <<parser, sources, studyVars, channelVars>>

\* the thread of task t runs its closure
RunTask(t) ==
    /\ stage = "runtime"
    /\ ~crashed
    /\ tasks[t].status = "spawned"
    /\ Commit(Do([op |-> "thread", st |-> State(scope, 0), task |-> t]))
    /\ UNCHANGED <<parser, scope, run, crashed, sources, results, studyVars, channelVars>>

Next ==
    \/ \E f \in DOMAIN Fragments : ParseFragment(f)
    \/ RunWithScope
    \/ Evaluate
    \/ StepMain
    \/ \E t \in DOMAIN tasks : RunTask(t)

Spec == Init /\ [][Next]_vars

(***************************************************************************)
(*                            PROPERTIES                                   *)
(***************************************************************************)

Events(kind) == {i \in 1..Len(log) : log[i].e = kind}

\* C1: every evaluation error that a statement reachable from the root block
\* raises in the host's evaluator, whatever the statement's position in its
\* block, is the Err that the run returns.
C1_ErrorsAreReturned ==
    \A k \in 1..Len(results) : \A i \in Events("err") :
        (log[i].by = 0 /\ log[i].run = results[k].run)
            => results[k].r = [k |-> "Err", err |-> log[i].err]

\* a definition (event j) of the name that event i refers to, made in the same
\* Scope, in the scope of i or one that encloses it, and not left since
Visible(j, i) ==
    /\ j < i
    /\ log[j].e = "def"
    /\ log[j].inst = log[i].inst
    /\ log[j].name = log[i].name
    /\ IsPrefix(log[j].path, log[i].path)
    /\ \A x \in Events("exit") :
           ~(j < x /\ x < i /\ log[x].inst = log[i].inst /\ IsPrefix(log[x].path, log[j].path))

\* what lexical scoping gives the reference of event i: the latest definition
\* in the innermost scope that has one, else the global, else VariableNotFound
Lexical(i) ==
    LET seen == {j \in 1..(i - 1) : Visible(j, i)}
        best == CHOOSE j \in seen : \A other \in seen :
                    \/ Len(log[other].path) < Len(log[j].path)
                    \/ Len(log[other].path) = Len(log[j].path) /\ other <= j
    IN  IF seen # {} THEN Ok(log[best].val)
        ELSE IF log[i].name \in BuiltinNames THEN Ok(setup_globals(log[i].inst)[log[i].name])
        ELSE Err("VariableNotFound", log[i].name)

\* C2: a `let x` inside a nested block binds x in that block only: references
\* in the block and in its nested blocks see the inner value, and once the
\* block is left a reference sees the outer binding again (or fails).
C2_BlockScoping == \A i \in Events("ref") : log[i].res = Lexical(i)

\* the call event that created the Scope of event i, if a closure call did
CallOf(i) == {c \in Events("call") : log[c].inst = log[i].inst}

Captures(fn) == DOMAIN fns[fn].capture_area

Params(fn) ==
    LET objs == parser.objects[fns[fn].arguments_block + 1].objects
    IN  {parser.objects[objs[k] + 1].var_name :
            k \in {n \in 1..Len(objs) : parser.objects[objs[n] + 1].type = "VarRef"}}

\* names that the body itself defined with `let` before event i
OwnLets(i) ==
    {log[j].name : j \in {d \in Events("def") :
        d < i /\ log[d].inst = log[i].inst /\ log[d].how = "let"}}

\* C3: in a call of a closure with capture list C and parameters P, a name
\* that the body refers to and does not define itself resolves only if it is
\* in C, in P or a builtin; a variable of the defining scope that is not in C
\* never resolves.
C3_ClosureSeesOnlyCaptures ==
    \A i \in Events("ref") : \A c \in CallOf(i) :
        log[i].res.k = "Ok" =>
            log[i].name \in Captures(log[c].fn) \cup Params(log[c].fn)
                            \cup BuiltinNames \cup OwnLets(i)

\* C3 happens: the body of a closure referred to a variable that its caller's
\* Scope defines and that is neither captured nor a parameter, and got an error
C3_Witness ==
    \E i \in Events("ref") : \E c \in CallOf(i) :
        /\ log[i].res.k = "Err"
        /\ log[i].name \notin Captures(log[c].fn) \cup Params(log[c].fn)
        /\ \E d \in Events("def") :
               d < c /\ log[d].inst = log[c].from /\ log[d].name = log[i].name

\* C4: every add(r, n) on a Ref that holds an integer increases the integer
\* by n and returns the new content.
C4_AddIncrements ==
    \A i \in Events("add") :
        log[i].before.t = "Usize" =>
            /\ log[i].after = Usize(log[i].before.n + log[i].increment)
            /\ log[i].result = log[i].after

\* C5: the arguments of a thread(...) call are evaluated by the spawning
\* evaluator in the spawner's Scope, not by the spawned task.
C5_SpawnerEvaluatesArguments ==
    \A i \in Events("threadargs") :
        log[i].by = log[i].spawner /\ log[i].inst = log[i].scope

\* C6: wait on the handle of a task that failed returns Err(WrongValue): the
\* waiting evaluator does not crash and is not told Ok.
C6_FailedTaskIsWrongValue ==
    \A i \in Events("wait") :
        log[i].status = "panicked" =>
            log[i].res.k = "Err" /\ log[i].res.err.kind = "WrongValue"

\* C7: when wait(h) returns for the handle h of a thread call, the task that
\* the call spawned has finished, and nothing that this task writes comes
\* after what was written when wait returned.
C7_WaitOutlastsTask ==
    \A i \in Events("wait") :
        (log[i].res.k = "Ok" /\ "task" \in DOMAIN log[i].handle) =>
            /\ log[i].handle.task \in log[i].finished
            /\ \A o \in (log[i].outlen + 1)..Len(stdout) : stdout[o].by # log[i].handle.task

\* the top-level `let` definitions that run number n made on the host's Scope
TopLevelLets(n) ==
    {d \in Events("def") :
        /\ log[d].run = n /\ log[d].by = 0 /\ log[d].inst = 0
        /\ log[d].path = <<>> /\ log[d].how = "let"}

\* event i belongs to a statement that was parsed after the run of results[k]
\* and is evaluated by a later run on the same Scope
InLaterIncrement(i, k) ==
    /\ ~results[k].own
    /\ log[i].by = 0 /\ log[i].inst = 0
    /\ log[i].run > results[k].run
    /\ log[i].stmt > results[k].size

\* C9: after parse(A), a run on Scope S, parse(B) and a second run on S, a
\* statement of B that refers to a top-level binding of A gets the value that
\* the binding had when the run of A ended.
C9_BindingsSurviveIncrements ==
    \A k \in 1..Len(results) : \A i \in Events("ref") : \A d \in TopLevelLets(results[k].run) :
        ( /\ InLaterIncrement(i, k)
          /\ log[i].name = log[d].name
          /\ ~\E e \in Events("def") :
                 e < i /\ InLaterIncrement(e, k) /\ log[e].name = log[i].name )
            => /\ log[i].res.k = "Ok"
               /\ LenarEq(log[i].res.v, results[k].variables[log[i].name])

\* every value that a variable, a capture area or a cell holds
Held ==
    UNION {{scope[q][m] : m \in DOMAIN scope[q]} : q \in DOMAIN scope}
    \cup UNION {{run.tree[q][m] : m \in DOMAIN run.tree[q]} : q \in DOMAIN run.tree}
    \cup UNION {{fns[f].capture_area[m] : m \in DOMAIN fns[f].capture_area} : f \in DOMAIN fns}
    \cup {heap[a] : a \in DOMAIN heap}

\* the copies of the Ref that the ref() call numbered k returned
Copies(k) == {v \in Held : v.t = "Ref" /\ RootOrigin(heap, v) = k}

\* the add calls that were the last to write through a copy of their Ref
LastAdds ==
    {i \in Events("add") :
        ~\E j \in Events("add") : j > i /\ log[j].origin = log[i].origin}

\* C10: after a mutation through one copy of a Ref, every other copy of the
\* Ref reads the mutated content.
C10_RefCopiesShareTheCell ==
    \A i \in LastAdds : \A v \in Copies(log[i].origin) :
        log[i].result.t = "Usize" => as_integer(heap, v, {}) = log[i].result.n

\* C10 happens: an add through one variable changed the content, and two
\* variables of the root scope hold copies of that Ref and read the new content
C10_Witness ==
    \E i \in LastAdds : \E m, n \in DOMAIN scope[<<>>] :
        /\ m # n
        /\ log[i].before # log[i].after
        /\ log[i].result.t = "Usize"
        /\ {scope[<<>>][m], scope[<<>>][n]} \subseteq Copies(log[i].origin)
        /\ as_integer(heap, scope[<<>>][m], {}) = log[i].result.n
        /\ as_integer(heap, scope[<<>>][n], {}) = log[i].result.n

\* the evaluators: the host's is 0, the one of the thread of task t is t
Evaluators == 0..Len(tasks)

\* C11: a spawned task evaluates in a scope tree of its own that starts from
\* the builtins: a name resolves in a task only if it is a builtin or the task
\* itself bound it, no task binds a name in a Scope that its spawner evaluates
\* in, and a name resolves for the spawner only if it is a builtin or the
\* spawner itself bound it.
C11_TaskScopeIsItsOwn ==
    /\ \A i \in Events("ref") :
           (log[i].res.k = "Ok" /\ log[i].name \notin BuiltinNames) =>
               \E d \in Events("def") :
                   /\ d < i
                   /\ log[d].by = log[i].by
                   /\ log[d].inst = log[i].inst
                   /\ log[d].name = log[i].name
    /\ \A d, e \in Events("def") :
           log[d].by # log[e].by => log[d].inst # log[e].inst

\* C11 happens: a task referred to a name that its spawner had bound and got
\* VariableNotFound, and the spawner referred to a name that the task had bound
\* and got VariableNotFound
C11_Witness ==
    \E t \in DOMAIN tasks :
        /\ \E i \in Events("ref") : \E d \in Events("def") :
               /\ log[d].by = tasks[t].spawner /\ log[d].inst = tasks[t].scope
               /\ log[i].by = t /\ d < i
               /\ log[i].name = log[d].name
               /\ log[i].res = Err("VariableNotFound", log[i].name)
        /\ \E j \in Events("ref") : \E e \in Events("def") :
               /\ log[e].by = t
               /\ log[j].by = tasks[t].spawner /\ log[j].inst = tasks[t].scope /\ e < j
               /\ log[j].name = log[e].name
               /\ log[j].res = Err("VariableNotFound", log[j].name)

\* the openFile calls of the same run, by the same evaluator, that returned
\* the handle that event u uses
OpenedAs(u) ==
    {o \in Events("open") :
        /\ o < u
        /\ log[o].run = log[u].run /\ log[o].by = log[u].by
        /\ log[o].rid = log[u].rid}

\* C12: toString and iter accept a handle that openFile returned earlier in
\* the same run wherever they are called, closure bodies included, and read
\* the file that openFile opened.
C12_FileHandlesAreProcessWide ==
    \A u \in Events("use") :
        OpenedAs(u) # {} =>
            /\ log[u].res.k = "Ok"
            /\ \E o \in OpenedAs(u) : log[o].file = log[u].file

\* C13: a call of a name that get_function finds no function for, anywhere
\* along the scope path, returns the error FunctionNotFound(name).
C13_UnknownFunctionIsFunctionNotFound ==
    \A i \in Events("nofn") : log[i].res = Err("FunctionNotFound", log[i].name)

\* the name of reference i is a builtin or was bound, before i, in the Scope
\* of i at the root or in one of the scopes on the path of i
BoundAlongPath(i) ==
    \/ log[i].name \in BuiltinNames
    \/ \E d \in Events("def") :
           /\ d < i
           /\ log[d].inst = log[i].inst
           /\ log[d].name = log[i].name
           /\ IsPrefix(log[d].path, log[i].path)

\* C14: a VarRef whose name is bound in no scope along the current scope
\* path, the root included, evaluates to Err(VariableNotFound(name)).
C14_UnboundNameIsVariableNotFound ==
    \A i \in Events("ref") :
        ~BoundAlongPath(i) => log[i].res = Err("VariableNotFound", log[i].name)

\* C14 happens: a reference, in a nested scope too, to a name bound nowhere on
\* its path was evaluated and gave the error
C14_Witness ==
    \E i, j \in Events("ref") :
        /\ ~BoundAlongPath(i) /\ log[i].path = <<>>
        /\ log[i].res = Err("VariableNotFound", log[i].name)
        /\ ~BoundAlongPath(j) /\ log[j].path # <<>>
        /\ log[j].res = Err("VariableNotFound", log[j].name)

\* the callback invocations of the iter call that ended with event j
CallsOf(j) == {c \in Events("itercall") : log[c].of = log[j].of}

\* the list that the iter call that ended with event j went over
ListOf(j) == log[log[j].of].iterator.items

\* the invocations of the iter call that ended with event j were made with
\* (element 0, 0), (element 1, 1), ... in this order
InIndexOrder(j) ==
    \A c \in CallsOf(j) :
        LET i == Cardinality({b \in CallsOf(j) : b < c})
        IN  i < Len(ListOf(j)) /\ log[c].args = <<ListOf(j)[i + 1], Usize(i)>>

\* the iter calls over a list that have returned
ListIterations == {j \in Events("iterend") : log[log[j].of].iterator.t = "List"}

LenarProperties == {"version"}

\* a segment after the first does not resolve to a property: the second is
\* no property of Lenar, or there is a third (a property value of Lenar is a
\* text, which has no properties)
Unresolved(var_path) ==
    \/ Len(var_path) >= 2 /\ var_path[2] \notin LenarProperties
    \/ Len(var_path) >= 3

\* C24: a PropertyRef whose first segment names an instance evaluates to
\* Void whenever a later segment of its path does not resolve to a property.
C24_UnresolvedSegmentIsVoid ==
    \A i \in Events("prop") :
        (log[i].var_path[1] = "Lenar" /\ Unresolved(log[i].var_path))
            => log[i].res = Ok(Void)

\* C25: once a nested Block has been evaluated, the child scope created for
\* it is no longer in the scope tree: between two statements of the root
\* block, the tree of the host's Scope holds the root scope and no other.
C25_FinishedBlockScopeIsGone ==
    /\ DOMAIN scope = {<<>>}
    /\ run.own => DOMAIN run.tree = {<<>>}

\* what the closure numbered fn captured under the name when it was created
CapturedAs(fn, name) ==
    {log[k].val : k \in {c \in Events("captured") : log[c].fn = fn /\ log[c].name = name}}

\* C26: a read of a captured name in the body of a closure gives the Value,
\* same variant and same content, that the name had in the defining scope
\* when the closure was created, whatever the name is bound to afterwards.
C26_CaptureIsTheValueAtCreation ==
    \A i \in Events("ref") : \A c \in CallOf(i) :
        (log[i].name \in Captures(log[c].fn) /\ log[i].name \notin OwnLets(i))
            => \E v \in CapturedAs(log[c].fn, log[i].name) : log[i].res = Ok(v)

\* C27: a FunctionCall resolves its name innermost-first: the function
\* invoked is the one bound to the name in the innermost scope on the path
\* that binds the name, and an outer binding is used only when no inner
\* scope on the path binds the name.
C27_CallResolvesInnermostFirst ==
    \A i \in Events("resolve") :
        /\ Lexical(i).k = "Ok"
        /\ log[i].f = as_func(heap, Lexical(i).v)

\* the evaluations of the arguments of the call that event j began
ArgsOf(j) == {a \in Events("arg") : log[a].of = j}

InvokesOf(j) == {v \in Events("invoke") : log[v].of = j}

EndsOf(j) == {x \in Events("end") : log[x].of = j}

\* C28: in a call of a function other than thread the arguments are
\* evaluated from left to right, all of them before the callee is invoked;
\* when an argument fails no later argument is evaluated, the callee is not
\* invoked, and the error of the argument is the result of the call.
C28_ArgumentsLeftToRight ==
    \A j \in Events("begin") :
        /\ \A a \in ArgsOf(j) : \A k \in 1..(log[a].k - 1) :
               \E b \in ArgsOf(j) : log[b].k = k /\ j < b /\ b < a /\ log[b].res.k = "Ok"
        /\ \A v \in InvokesOf(j) :
               /\ Len(log[v].args) = log[j].arity
               /\ \A k \in 1..log[j].arity :
                      \E a \in ArgsOf(j) :
                          log[a].k = k /\ a < v /\ log[a].res = Ok(log[v].args[k])
        /\ \A a \in ArgsOf(j) :
               log[a].res.k = "Err" =>
                   /\ InvokesOf(j) = {}
                   /\ \A x \in EndsOf(j) : log[x].res = log[a].res

\* C28 happens: a call of three arguments whose second argument failed has
\* ended, and a call of two arguments has been invoked with both
C28_Witness ==
    /\ \E j \in Events("begin") :
           /\ log[j].arity = 3
           /\ \E a \in ArgsOf(j) : log[a].k = 2 /\ log[a].res.k = "Err"
           /\ \E a \in ArgsOf(j) : log[a].k = 1 /\ log[a].res.k = "Ok"
           /\ EndsOf(j) # {}
    /\ \E j \in Events("begin") :
           /\ log[j].arity = 2
           /\ \E a, b \in ArgsOf(j) : \E v \in InvokesOf(j) :
                  log[a].k = 1 /\ log[b].k = 2 /\ a < b /\ b < v

(***************************************************************************)
(*                 INCREMENTAL AND ONE-SHOT PARSING                        *)
(*                                                                         *)
(* A second state machine over the same variables: two fragments A and B   *)
(* are parsed one after the other into `parser`, and their concatenation   *)
(* in one call into a second parser, `whole`.                              *)
(***************************************************************************)

\* let x = 1;
TxtLet ==
    <<"l", "e", "t", " ", "x", " ", "=", " ", "1", ";">>

\* x
TxtName ==
    <<"x">>

\*  println(x);
TxtCall ==
    <<" ", "p", "r", "i", "n", "t", "l", "n", "(", "x", ")", ";">>

\* {a}
TxtBlock ==
    <<"{", "a", "}">>

\*  b
TxtSpaceName ==
    <<" ", "b">>

\* let s = "a;
TxtOpenString ==
    <<"l", "e", "t", " ", "s", " ", "=", " ", "\"", "a", ";">>

\* b";
TxtCloseString ==
    <<"b", "\"", ";">>

\* { let y = 2;
TxtOpenBlock ==
    <<"{", " ", "l", "e", "t", " ", "y", " ", "=", " ", "2", ";">>

\*  }
TxtCloseBlock ==
    <<" ", "}">>

\* let x = 1; x
TxtLetName ==
    <<"l", "e", "t", " ", "x", " ", "=", " ", "1", ";", " ", "x">>

\* let f = fn(a) [b] { c };
TxtFn ==
    <<"l", "e", "t", " ", "f", " ", "=", " ", "f", "n", "(", "a", ")", " ", "[", "b",
      "]", " ", "{", " ", "c", " ", "}", ";">>

\*  if(a) { b } c;
TxtIf ==
    <<" ", "i", "f", "(", "a", ")", " ", "{", " ", "b", " ", "}", " ", "c", ";">>

Texts ==
    [Fn          |-> TxtFn,
     If          |-> TxtIf,
     Let         |-> TxtLet,
     LetName     |-> TxtLetName,
     Name        |-> TxtName,
     Call        |-> TxtCall,
     Block       |-> TxtBlock,
     SpaceName   |-> TxtSpaceName,
     OpenString  |-> TxtOpenString,
     CloseString |-> TxtCloseString,
     OpenBlock   |-> TxtOpenBlock,
     CloseBlock  |-> TxtCloseBlock]

InitParser ==
    /\ parser = NewParser
    /\ scope = NewScopeTree(0)
    /\ run = Idle
    /\ heap = <<>>
    /\ fns = <<>>
    /\ thread_locks = <<SlabNew>>
    /\ resources_files = <<SlabNew>>
    /\ tasks = <<>>
    /\ stdout = <<>>
    /\ ninst = 1
    /\ crashed = FALSE
    /\ log = <<>>
    /\ sources = <<>>
    /\ results = <<>>
    /\ input \in (DOMAIN Texts) \X (DOMAIN Texts)
    /\ whole = NewParser
    /\ loop = ParseStart(NewParser, <<>>)
    /\ stage = "fresh"
    /\ channels_pool = NewPool
    /\ callers = NoCallers

TextA == Texts[input[1]]

TextB == Texts[input[2]]

\* parser.parse(A)
ParseFirst ==
    /\ stage = "fresh"
    /\ parser' = Parse(parser, TextA).parser
    /\ crashed' = Parse(parser, TextA).panic
    /\ stage' = "first"
    /\ UNCHANGED <<runtimeVars, sources, input, whole, loop, channelVars>>

\* parser.parse(B) on the parser that parsed A
ParseSecond ==
    /\ stage = "first" /\ ~crashed
    /\ parser' = Parse(parser, TextB).parser
    /\ crashed' = Parse(parser, TextB).panic
    /\ stage' = "second"
    /\ UNCHANGED <<runtimeVars, sources, input, whole, loop, channelVars>>

\* parse(A + B) on a parser of its own
ParseWhole ==
    /\ stage = "second" /\ ~crashed
    /\ whole' = Parse(whole, TextA \o TextB).parser
    /\ crashed' = Parse(whole, TextA \o TextB).panic
    /\ stage' = "both"
    /\ UNCHANGED <<runtimeVars, sources, input, parser, loop, channelVars>>

NextParser == ParseFirst \/ ParseSecond \/ ParseWhole

SpecParser == InitParser /\ [][NextParser]_vars

\* the tree below object `key`, keys replaced by the objects they name
RECURSIVE Tree(_, _)
Tree(objects, key) ==
    LET o    == objects[key + 1]
        kids == CASE o.type = "Block" -> o.objects
                  [] o.type = "VarDef" -> <<o.block_value>>
                  [] o.type = "FunctionCall" -> <<o.arguments>>
                  [] o.type = "FnDef" -> <<o.arguments_block, o.capture_value, o.block_value>>
                  [] o.type = "IfDef" -> <<o.condition_block, o.block_value>>
                  [] OTHER -> <<>>
        tag  == CASE o.type = "Block" -> <<"Block">>
                  [] o.type = "VarDef" -> <<"VarDef", o.var_name>>
                  [] o.type = "FunctionCall" -> <<"FunctionCall", o.fn_name>>
                  [] o.type = "FnDef" -> <<"FnDef">>
                  [] o.type = "IfDef" -> <<"IfDef">>
                  [] o.type = "VarRef" -> <<"VarRef", o.var_name>>
                  [] o.type = "PropertyRef" -> <<"PropertyRef", o.path>>
                  [] o.type = "NumberVal" -> <<"NumberVal", o.value>>
                  [] OTHER -> <<o.type, o.value>>
    IN  [tag |-> tag, kids |-> [k \in 1..Len(kids) |-> Tree(objects, kids[k])]]

Shape(p) == Tree(p.objects, p.global_block)

\* the text after its first n characters is outside every string literal
OutsideString(text, n) ==
    Cardinality({k \in 1..n : text[k] = "\""}) % 2 = 0

\* opening minus closing brackets among the first n characters, strings apart
Depth(text, n, open, close) ==
    Cardinality({k \in 1..n : text[k] = open /\ OutsideString(text, k)})
    - Cardinality({k \in 1..n : text[k] = close /\ OutsideString(text, k)})

\* a fragment that ends outside every string literal and every block
Closed(text) ==
    /\ OutsideString(text, Len(text))
    /\ \A n \in 1..Len(text) :
           Depth(text, n, "{", "}") >= 0 /\ Depth(text, n, "(", ")") >= 0
    /\ Depth(text, Len(text), "{", "}") = 0
    /\ Depth(text, Len(text), "(", ")") = 0

\* a character of a word: a name, a keyword or a number
IsWordChar(c) == c \notin {" ", ";", "{", "}", "(", ")", "[", "]", "\"", "=", "."}

\* the boundary between A and B does not cut a word in two
Separated == ~IsWordChar(Last(TextA)) \/ ~IsWordChar(Head(TextB))

\* C8: parsing A and then B into one parser gives the same tree as parsing
\* A + B in one call, for fragments that the parser accepts, that end outside
\* every string literal and every block, and whose boundary cuts no word.
C8_AppendEquivalence ==
    (stage = "both" /\ ~crashed /\ Closed(TextA) /\ Closed(TextB) /\ Separated)
        => Shape(parser) = Shape(whole)

(***************************************************************************)
(*                      CALLS OF THE BUILTINS                              *)
(*                                                                         *)
(* A third state machine over the same variables: the host calls builtins  *)
(* of a Scope with the globals through Scope::call_function, one call      *)
(* after the other, on values drawn from a bounded set.  `input` is the    *)
(* script of calls, `results` what each call returned.                     *)
(***************************************************************************)

TextHi == <<"h", "i">>

TextVersion == <<"1", ".", "0", ".", "0">>

\* the values that the calls are made on
SampleValues ==
    {Void, Usize(0), Usize(1), Bool(TRUE), Bool(FALSE),
     Bytes(TextHi), OwnedBytes(TextHi), Bytes(<<"h">>),
     Bytes(TextVersion), Str("1.0.0"),
     List(<<>>), List(<<Usize(0), Bytes(TextHi)>>), List(<<Usize(0), OwnedBytes(TextHi)>>),
     Enum("Ok", Usize(0)), Enum("Err", Usize(0)),
     Function("println", 0), Instance("Lenar")}

\* an argument of a call of a script: a value, or what an earlier call returned
Literal(v) == [out |-> 0, val |-> v]

Returned(k) == [out |-> k, val |-> Void]

Script(kind, a, b) ==
    CASE kind = "Equal" ->
            <<[fn |-> "isEqual", args |-> <<Literal(a), Literal(b)>>],
              [fn |-> "isEqual", args |-> <<Literal(b), Literal(a)>>],
              [fn |-> "isEqual", args |-> <<Literal(a), Literal(a)>>]>>
      [] kind = "Result" ->
            <<[fn |-> "Ok", args |-> <<Literal(a)>>],
              [fn |-> "Err", args |-> <<Literal(a)>>],
              [fn |-> "isOk", args |-> <<Returned(1)>>],
              [fn |-> "isOk", args |-> <<Returned(2)>>],
              [fn |-> "unwrap", args |-> <<Returned(1)>>],
              [fn |-> "unwrapErr", args |-> <<Returned(2)>>],
              [fn |-> "unwrap", args |-> <<Returned(2)>>],
              [fn |-> "unwrapErr", args |-> <<Returned(1)>>]>>
      [] OTHER ->
            <<[fn |-> kind, args |-> <<>>]>>

\* the scripts: Equal and Result on sample values, and single calls of a
\* builtin with no, one or two arguments
SingleCalls == {"Ok", "Err", "isOk", "unwrap", "unwrapErr", "add", "ref"}

Scripts ==
    [kind : {"Equal"}, a : SampleValues, b : SampleValues, n : {2}]
    \cup [kind : {"Result"}, a : SampleValues, b : {Void}, n : {1}]
    \cup [kind : SingleCalls, a : SampleValues, b : SampleValues, n : {2}]
    \cup [kind : SingleCalls, a : SampleValues, b : {Void}, n : {0, 1}]

\* the calls of the script `input`
Calls ==
    IF input.kind \in SingleCalls
    THEN <<[fn |-> input.kind,
            args |-> SubSeq(<<Literal(input.a), Literal(input.b)>>, 1, input.n)]>>
    ELSE Script(input.kind, input.a, input.b)

InitBuiltins ==
    /\ parser = NewParser
    /\ scope = NewScopeTree(0)
    /\ run = Idle
    /\ heap = <<>>
    /\ fns = <<>>
    /\ thread_locks = <<SlabNew>>
    /\ resources_files = <<SlabNew>>
    /\ tasks = <<>>
    /\ stdout = <<>>
    /\ ninst = 1
    /\ crashed = FALSE
    /\ log = <<>>
    /\ sources = <<>>
    /\ results = <<>>
    /\ input \in Scripts
    /\ whole = NewParser
    /\ loop = ParseStart(NewParser, <<>>)
    /\ stage = "builtins"
    /\ channels_pool = NewPool
    /\ callers = NoCallers

\* the arguments of a call, once the earlier calls have returned
Arguments(call) ==
    [k \in 1..Len(call.args) |->
        IF call.args[k].out = 0 THEN call.args[k].val ELSE results[call.args[k].out].r.v]

\* what a call leaves behind
Called(call, res) ==
    /\ Commit(res.st)
    /\ crashed' = (res.r.k = "Panic")
    /\ results' = Append(results, [fn |-> call.fn, args |-> Arguments(call), r |-> res.r])

\* scope.call_function(name, &mut [].iter(), args, &parser) by the host
CallBuiltin ==
    /\ stage = "builtins" /\ ~crashed
    /\ Len(results) < Len(Calls)
    /\ Called(Calls[Len(results) + 1],
              Do([op |-> "call_function", st |-> State(scope, 0),
                  name |-> Calls[Len(results) + 1].fn, path |-> <<>>,
                  args |-> Arguments(Calls[Len(results) + 1])]))
    /\ UNCHANGED <<parser, scope, run, sources, studyVars, channelVars>>

NextBuiltins == CallBuiltin

SpecBuiltins == InitBuiltins /\ [][NextBuiltins]_vars

\* the script `input` is of this kind and its first n calls have returned
Ran(kind, n) == stage = "builtins" /\ input.kind = kind /\ Len(results) >= n

\* the arguments are fewer than the builtin takes, or of a type it has no
\* use for: unwrap and unwrapErr take a Result, add takes a Ref and an integer
Takes == [Ok |-> 1, Err |-> 1, isOk |-> 1, unwrap |-> 1, unwrapErr |-> 1, add |-> 2, ref |-> 1]

Misused ==
    \/ input.n < Takes[input.kind]
    \/ input.kind \in {"unwrap", "unwrapErr"} /\ input.a.t # "Enum"
    \/ input.kind = "add" /\ (input.a.t # "Ref" \/ input.b.t # "Usize")

\* C15: a call of a builtin with an argument of the wrong type, or with fewer
\* arguments than it takes, returns Err(WrongValue): it neither crashes nor
\* returns a normal value.
C15_MisuseIsWrongValue ==
    (input.kind \in SingleCalls /\ Ran(input.kind, 1) /\ Misused)
        => results[1].r.k = "Err" /\ results[1].r.err.kind = "WrongValue"

\* integers, booleans, text, void, and lists of them
RECURSIVE Comparable(_)
Comparable(v) ==
    \/ v.t \in {"Usize", "Bool", "Bytes", "OwnedBytes", "Str", "Void"}
    \/ v.t = "List" /\ \A k \in 1..Len(v.items) : Comparable(v.items[k])

IsText(v) == v.t \in {"Bytes", "OwnedBytes", "Str"}

\* the bytes of a Text value, as one string
TextOf(v) == IF v.t = "Str" THEN v.s ELSE Concat(v.b)

\* C17: two Text values that hold the same bytes are equal under isEqual,
\* whichever representation each has.
C17_TextEqualityIgnoresRepresentation ==
    (Ran("Equal", 1) /\ IsText(input.a) /\ IsText(input.b) /\ TextOf(input.a) = TextOf(input.b))
        => results[1].r = Ok(Bool(TRUE))

\* C18: for every value x, isOk(Ok(x)) is true, isOk(Err(x)) is false,
\* unwrap(Ok(x)) returns x and unwrapErr(Err(x)) returns x.
C18_ResultRoundTrip ==
    /\ Ran("Result", 3) => results[3].r = Ok(Bool(TRUE))
    /\ Ran("Result", 4) => results[4].r = Ok(Bool(FALSE))
    /\ Ran("Result", 5) => results[5].r = Ok(input.a)
    /\ Ran("Result", 6) => results[6].r = Ok(input.a)

\* C18 happens: the four calls were made for an x that is itself a Result,
\* and unwrap gave x back
C18_Witness ==
    /\ Ran("Result", 6) /\ input.a.t = "Enum"
    /\ results[1].r = Ok(Enum("Ok", input.a)) /\ results[2].r = Ok(Enum("Err", input.a))
    /\ results[5].r = Ok(input.a) /\ results[6].r = Ok(input.a)

\* C19: unwrap of an Err(x) and unwrapErr of an Ok(x) fail with the error
\* WrongValue: they return neither x nor Void.
C19_WrongVariantIsWrongValue ==
    /\ Ran("Result", 7) => results[7].r.k = "Err" /\ results[7].r.err.kind = "WrongValue"
    /\ Ran("Result", 8) => results[8].r.k = "Err" /\ results[8].r.err.kind = "WrongValue"

\* C19 happens: unwrap was called on Err(x) and unwrapErr on Ok(x), x a list
C19_Witness ==
    /\ Ran("Result", 8) /\ input.a.t = "List"
    /\ results[7].fn = "unwrap" /\ results[7].args = <<Enum("Err", input.a)>>
    /\ results[8].fn = "unwrapErr" /\ results[8].args = <<Enum("Ok", input.a)>>
    /\ results[7].r = Err("WrongValue", "Ok") /\ results[8].r = Err("WrongValue", "Err")
(***************************************************************************)
(*                      THE TURNS OF Parser::parse                         *)
(*                                                                         *)
(* A fourth state machine over the same variables: one call of             *)
(* Parser::parse on a new parser, a turn of its loop per step.  `input`    *)
(* names the code, `loop` holds the locals of the call, and `log` records  *)
(* what each turn did.                                                     *)
(***************************************************************************)

\* let x = 1;
CodeLetEq ==
    <<"l", "e", "t", " ", "x", " ", "=", " ", "1", ";">>

\* x = 1;
CodeBareEq ==
    <<"x", " ", "=", " ", "1", ";">>

\* x=1;
CodeGluedEq ==
    <<"x", "=", "1", ";">>

\* let x == 1;
CodeDoubleEq ==
    <<"l", "e", "t", " ", "x", " ", "=", "=", " ", "1", ";">>

\* println(a = b);
CodeArgEq ==
    <<"p", "r", "i", "n", "t", "l", "n", "(", "a", " ", "=", " ", "b", ")", ";">>

\* println("a{b};=)");
CodeStrStruct ==
    <<"p", "r", "i", "n", "t", "l", "n", "(", "\"", "a", "{", "b", "}", ";", "=", ")",
      "\"", ")", ";">>

\* println("aé");
CodeStrWide ==
    <<"p", "r", "i", "n", "t", "l", "n", "(", "\"", "a", "é", "\"", ")", ";">>

\* println("éa");
CodeStrWideFirst ==
    <<"p", "r", "i", "n", "t", "l", "n", "(", "\"", "é", "a", "\"", ")", ";">>

\* let s = "let x"; "" "["
CodeStrLet ==
    <<"l", "e", "t", " ", "s", " ", "=", " ", "\"", "l", "e", "t", " ", "x", "\"", ";",
      " ", "\"", "\"", " ", "\"", "[", "\"">>

\* let f = fn(a) [b] { c }; d;
CodeFn ==
    <<"l", "e", "t", " ", "f", " ", "=", " ", "f", "n", "(", "a", ")", " ", "[", "b",
      "]", " ", "{", " ", "c", " ", "}", ";", " ", "d", ";">>

\* if(a) { b } c;
CodeIf ==
    <<"i", "f", "(", "a", ")", " ", "{", " ", "b", " ", "}", " ", "c", ";">>

\* { fn() [] { if(a) { fn(x y) [z] { "}" } b } c } d } e;
CodeNested ==
    <<"{", " ", "f", "n", "(", ")", " ", "[", "]", " ", "{", " ", "i", "f", "(", "a",
      ")", " ", "{", " ", "f", "n", "(", "x", " ", "y", ")", " ", "[", "z", "]", " ",
      "{", " ", "\"", "}", "\"", " ", "}", " ", "b", " ", "}", " ", "c", " ", "}", " ",
      "d", " ", "}", " ", "e", ";">>

\* let f = fn(a) { b }; d;
CodeFnBare ==
    <<"l", "e", "t", " ", "f", " ", "=", " ", "f", "n", "(", "a", ")", " ", "{", " ",
      "b", " ", "}", ";", " ", "d", ";">>

\* fn(a) [z]{println(z)} c;
CodeFnTight ==
    <<"f", "n", "(", "a", ")", " ", "[", "z", "]", "{", "p", "r", "i", "n", "t", "l",
      "n", "(", "z", ")", "}", " ", "c", ";">>

\* if(a){b}
CodeIfTight ==
    <<"i", "f", "(", "a", ")", "{", "b", "}">>

\* fn(a) [] { let q = 1; println(q a); q } r;
CodeFnBody ==
    <<"f", "n", "(", "a", ")", " ", "[", "]", " ", "{", " ", "l", "e", "t", " ", "q",
      " ", "=", " ", "1", ";", " ", "p", "r", "i", "n", "t", "l", "n", "(", "q", " ",
      "a", ")", ";", " ", "q", " ", "}", " ", "r", ";">>

\* a b
CodeRefEnd ==
    <<"a", " ", "b">>

\* println(letter);
CodeLetter ==
    <<"p", "r", "i", "n", "t", "l", "n", "(", "l", "e", "t", "t", "e", "r", ")", ";">>

Codes ==
    [RefEnd |-> CodeRefEnd,
     Letter |-> CodeLetter,
     FnTight |-> CodeFnTight,
     IfTight |-> CodeIfTight,
     FnBody |-> CodeFnBody,
     LetEq |-> CodeLetEq,
     BareEq |-> CodeBareEq,
     GluedEq |-> CodeGluedEq,
     DoubleEq |-> CodeDoubleEq,
     ArgEq |-> CodeArgEq,
     StrStruct |-> CodeStrStruct,
     StrWide |-> CodeStrWide,
     StrWideFirst |-> CodeStrWideFirst,
     StrLet |-> CodeStrLet,
     Fn |-> CodeFn,
     If |-> CodeIf,
     Nested |-> CodeNested,
     FnBare |-> CodeFnBare]

InitTurns ==
    /\ parser = NewParser
    /\ scope = NewScopeTree(0)
    /\ run = Idle
    /\ heap = <<>>
    /\ fns = <<>>
    /\ thread_locks = <<SlabNew>>
    /\ resources_files = <<SlabNew>>
    /\ tasks = <<>>
    /\ stdout = <<>>
    /\ ninst = 1
    /\ crashed = FALSE
    /\ log = <<>>
    /\ sources = <<>>
    /\ results = <<>>
    /\ input \in DOMAIN Codes
    /\ whole = NewParser
    /\ loop = ParseStart(NewParser, Codes[input])
    /\ stage = "turns"
    /\ channels_pool = NewPool
    /\ callers = NoCallers

\* what a turn that began with the locals `ps` and ended with `after` did
Turn(ps, after) ==
    [e |-> "turn", from |-> ps.p + 1, upto |-> after.p,
     string_count |-> ps.string_count, last_action |-> ps.last_action,
     stack |-> ps.block_indexes, stack_after |-> after.block_indexes,
     nodes |-> Len(ps.objects), nodes_after |-> Len(after.objects),
     attached |-> {k \in 0..(Len(ps.objects) - 1) :
                      after.objects[k + 1] # ps.objects[k + 1]},
     panic |-> after.panic]

\* one turn of the loop of Parser::parse
ParseTurn ==
    /\ stage = "turns" /\ ~crashed
    /\ loop.p < Len(loop.code)
    /\ loop' = ParseStep(loop)
    /\ parser' = [parser EXCEPT !.objects = loop'.objects]
    /\ crashed' = loop'.panic
    /\ log' = Append(log, Turn(loop, loop'))
    /\ UNCHANGED <<scope, run, heap, fns, thread_locks, resources_files, tasks, stdout,
                   ninst, sources, results, input, whole, stage, channelVars>>

NextTurns == ParseTurn

SpecTurns == InitTurns /\ [][NextTurns]_vars

\* the code under parse
Code == loop.code

\* the call of parse has returned
Returns == stage = "turns" /\ ~crashed /\ loop.p = Len(Code)

Turns == Events("turn")

\* character k of the code is outside every string literal
Outside(k) == OutsideString(Code, k - 1)

\* character k comes directly after the variable name of a let: `let`, a
\* space, a name, and nothing but spaces and line breaks up to k
AfterLetName(k) ==
    \E s \in 1..k, end \in 1..k :
        /\ s + 4 <= end /\ end < k
        /\ SubSeq(Code, s, s + 3) = <<"l", "e", "t", " ">>
        /\ \A j \in (s + 4)..end : IsWordChar(Code[j])
        /\ \A j \in (end + 1)..(k - 1) : Code[j] \in {" ", "\n"}

\* the `=` signs that turn t consumed outside string literals
EqualSigns(t) == {k \in log[t].from..log[t].upto : Code[k] = "=" /\ Outside(k)}

\* C21: an `=` outside a string makes parse fail with a syntax error unless
\* it comes directly after the variable name of a let, and an `=` directly
\* after `let NAME` is accepted and produces no node.
C21_EqualSignOnlyAfterLetName ==
    \A t \in Turns : \A k \in EqualSigns(t) :
        IF AfterLetName(k)
        THEN /\ ~log[t].panic
             /\ log[t].from = k => log[t].nodes_after = log[t].nodes /\ log[t].attached = {}
        ELSE log[t].panic

\* the opening quote of the string literal that the quote at k closes
Opening(k) == CHOOSE a \in 1..(k - 1) : Code[a] = "\"" /\ \A j \in (a + 1)..(k - 1) : Code[j] # "\""

\* C22: the text between an opening and a closing double quote becomes
\* exactly one BytesVal node whose bytes are the source text between the
\* quotes, and has no structural effect: no turn inside the literal opens or
\* closes a block or creates another node, whatever the characters are.
C22_StringIsOneBytesVal ==
    \A t \in Turns :
        log[t].string_count > 0 =>
            /\ ~log[t].panic
            /\ log[t].stack_after = log[t].stack
            /\ IF Code[log[t].from] = "\""
               THEN /\ log[t].nodes_after = log[t].nodes + 1
                    /\ loop.objects[log[t].nodes + 1] =
                           [type |-> "BytesVal",
                            value |-> SubSeq(Code, Opening(log[t].from) + 1, log[t].from - 1)]
                    /\ log[t].attached = {Last(log[t].stack).key}
               ELSE log[t].nodes_after = log[t].nodes /\ log[t].attached = {}

\* the closer that matches the opener at position a, 0 when there is none
Match(open, close, a) ==
    LET ends == {b \in (a + 1)..Len(Code) :
                    /\ Code[b] = close /\ Outside(b)
                    /\ Depth(Code, b, open, close) = Depth(Code, a - 1, open, close)}
    IN  IF a = 0 \/ ends = {} THEN 0 ELSE CHOOSE b \in ends : \A c \in ends : b <= c

\* the first character after position k that is no space or line break, when
\* it is the character c; 0 otherwise
Then(k, c) ==
    LET rest == {j \in (k + 1)..Len(Code) : Code[j] \notin {" ", "\n"}}
        j    == CHOOSE j \in rest : \A h \in rest : j <= h
    IN  IF k = 0 \/ rest = {} THEN 0 ELSE IF Code[j] = c THEN j ELSE 0

\* the keys of the objects below object `key`, itself included
RECURSIVE Under(_, _)
Under(objects, key) ==
    LET o    == objects[key + 1]
        kids == CASE o.type = "Block" -> Range(o.objects)
                  [] o.type = "VarDef" -> {o.block_value}
                  [] o.type = "FunctionCall" -> {o.arguments}
                  [] o.type = "FnDef" -> {o.arguments_block, o.capture_value, o.block_value}
                  [] o.type = "IfDef" -> {o.condition_block, o.block_value}
                  [] OTHER -> {}
    IN  {key} \cup UNION {Under(objects, k) : k \in kids}

\* the turns that made an FnDef or an IfDef
Constructs ==
    {t \in Turns : log[t].nodes_after > log[t].nodes
                   /\ loop.objects[log[t].nodes_after].type \in {"FnDef", "IfDef"}}

\* the FnDef or IfDef that turn t made
Made(t) == loop.objects[log[t].nodes_after]

\* where the parts of the construct of turn t are in the code: the
\* parentheses, the brackets of an fn with a capture list, and the braces
Parts(t) ==
    LET po == log[t].upto
        pc == Match("(", ")", po)
        bo == IF Made(t).type = "FnDef" THEN Then(pc, "[") ELSE 0
        bc == Match("[", "]", bo)
        co == IF Made(t).type = "FnDef" THEN Then(bc, "{") ELSE Then(pc, "{")
    IN  [po |-> po, pc |-> pc, bo |-> bo, bc |-> bc, co |-> co, cc |-> Match("{", "}", co)]

\* the turn that consumed the character at position k
Consumed(k) == {e \in Turns : log[e].from <= k /\ k <= log[e].upto}

\* the construct of turn t is complete and parse has consumed its last `}`
Complete(t) == Parts(t).cc # 0 /\ \E e \in Consumed(Parts(t).cc) : ~log[e].panic

\* the turns that began at a character strictly between positions a and b
Between(a, b) == {u \in Turns : a < log[u].from /\ log[u].from < b}

\* C29: after a complete `fn(params) [captures] { body }` or
\* `if(cond) { body }` the stack of open blocks is what it was before the
\* construct, at any nesting depth; the parameters or the condition, the
\* captures and the body statements are attached below the block of their
\* own, and the construct attaches nothing else than itself to a block that
\* was there before it.
C29_ConstructsLeaveTheStack ==
    \A t \in Constructs :
        Complete(t) =>
            LET at  == Parts(t)
                def == Made(t)
                own(u, block) == log[u].attached \subseteq Under(loop.objects, block)
            IN  /\ \A e \in Consumed(at.cc) : log[e].stack_after = log[t].stack
                /\ log[t].attached = {Last(log[t].stack).key}
                /\ \A u \in Between(at.po, at.pc) :
                       own(u, IF def.type = "FnDef" THEN def.arguments_block
                              ELSE def.condition_block)
                /\ \A u \in Between(at.bo, at.bc) : own(u, def.capture_value)
                /\ \A u \in Between(at.co, at.cc) : own(u, def.block_value)
                /\ \A u \in Between(at.po, at.cc + 1) : log[u].attached \cap 0..(log[t].nodes - 1) = {}

\* the fn of turn t is written without a capture list: `{` follows `)`
Bare(t) == Made(t).type = "FnDef" /\ Then(Parts(t).pc, "{") # 0

\* the braces of a bare fn
Body(t) ==
    [co |-> Then(Parts(t).pc, "{"), cc |-> Match("{", "}", Then(Parts(t).pc, "{"))]

\* C30: a function literal without a capture list, `fn(params) { body }`,
\* yields a FnDef whose body block holds the statements between the braces:
\* every object that the turns between the braces attach goes below
\* block_value, and block_value is not left empty by a body that has
\* statements.
C30_BareFnHasItsBody ==
    \A t \in Constructs :
        (Bare(t) /\ Body(t).cc # 0 /\ Consumed(Body(t).cc) # {}) =>
            /\ \A u \in Between(Body(t).co, Body(t).cc) :
                   log[u].attached \subseteq Under(loop.objects, Made(t).block_value)
            /\ (\E u \in Between(Body(t).co, Body(t).cc) : log[u].attached # {})
                   => loop.objects[Made(t).block_value + 1].objects # <<>>

(***************************************************************************)
(*                     WHITESPACE BETWEEN TOKENS                           *)
(*                                                                         *)
(* A fifth state machine over the same variables: a code is parsed into    *)
(* `parser`, and the same code with one whitespace character added,        *)
(* removed or changed between two tokens into `whole`.  `input` is the     *)
(* code and the edit, `results` records whether each parse panicked.       *)
(***************************************************************************)

\* let x = 1;
PlainLet ==
    <<"l", "e", "t", " ", "x", " ", "=", " ", "1", ";">>

\* println(x 1);
PlainCall ==
    <<"p", "r", "i", "n", "t", "l", "n", "(", "x", " ", "1", ")", ";">>

\* let s = "a b";
PlainText ==
    <<"l", "e", "t", " ", "s", " ", "=", " ", "\"", "a", " ", "b", "\"", ";">>

\* fn(a) [z]{println(z)} c;
PlainClosure ==
    <<"f", "n", "(", "a", ")", " ", "[", "z", "]", "{", "p", "r", "i", "n", "t", "l",
      "n", "(", "z", ")", "}", " ", "c", ";">>

\* if(a) { b } c;
PlainCond ==
    <<"i", "f", "(", "a", ")", " ", "{", " ", "b", " ", "}", " ", "c", ";">>

Plains ==
    [Let |-> PlainLet,
     Call |-> PlainCall,
     Text |-> PlainText,
     Closure |-> PlainClosure,
     Cond |-> PlainCond]

\* space, line break and tab
Blanks == {" ", "\n", "\t"}

\* a character of a name, a keyword, a number or a dotted path
InToken(c) == c \notin Blanks \cup {";", "{", "}", "(", ")", "[", "]", "\"", "="}

\* the edits of one whitespace character: `add` puts ws after the first `at`
\* characters, `drop` removes character `at`, `change` replaces it by ws
Edits ==
    UNION {[code : {c}, kind : {"add", "drop", "change"}, at : 0..Len(Plains[c]), ws : Blanks] :
              c \in DOMAIN Plains}

\* the code with the edit made
Edit(text, e) ==
    CASE e.kind = "add" -> SubSeq(text, 1, e.at) \o <<e.ws>> \o SubSeq(text, e.at + 1, Len(text))
      [] e.kind = "drop" -> SubSeq(text, 1, e.at - 1) \o SubSeq(text, e.at + 1, Len(text))
      [] OTHER -> [text EXCEPT ![e.at] = e.ws]

\* characters k and k + 1 are not of the same token, and k + 1 is not the
\* parenthesis that makes the name before it a call
Apart(text, k) ==
    \/ k = 0 \/ k = Len(text)
    \/ /\ ~(InToken(text[k]) /\ InToken(text[k + 1]))
       /\ text[k + 1] # "("

\* the edit is of whitespace between two tokens, outside string literals,
\* and leaves the tokens what they were
BetweenTokens(text, e) ==
    CASE e.kind = "add" ->
            /\ e.at <= Len(text)
            /\ OutsideString(text, e.at)
            /\ Apart(text, e.at)
      [] e.kind = "drop" ->
            /\ e.at \in 1..Len(text) /\ e.ws = " "
            /\ text[e.at] \in Blanks
            /\ OutsideString(text, e.at)
            /\ Apart(Edit(text, e), e.at - 1)
      [] OTHER ->
            /\ e.at \in 1..Len(text)
            /\ text[e.at] \in Blanks /\ e.ws # text[e.at]
            /\ OutsideString(text, e.at)

InitSpacing ==
    /\ parser = NewParser
    /\ scope = NewScopeTree(0)
    /\ run = Idle
    /\ heap = <<>>
    /\ fns = <<>>
    /\ thread_locks = <<SlabNew>>
    /\ resources_files = <<SlabNew>>
    /\ tasks = <<>>
    /\ stdout = <<>>
    /\ ninst = 1
    /\ crashed = FALSE
    /\ log = <<>>
    /\ sources = <<>>
    /\ results = <<>>
    /\ input \in {e \in Edits : BetweenTokens(Plains[e.code], e)}
    /\ whole = NewParser
    /\ loop = ParseStart(NewParser, <<>>)
    /\ stage = "spacing"
    /\ channels_pool = NewPool
    /\ callers = NoCallers

Plain == Plains[input.code]

Edited == Edit(Plain, input)

\* the code was parsed, the edited code was parsed
Did(which) == \E k \in 1..Len(results) : results[k].which = which

\* Parser::new(code), with the code as it is
ParsePlain ==
    /\ stage = "spacing" /\ ~Did("plain")
    /\ parser' = Parse(parser, Plain).parser
    /\ results' = Append(results, [which |-> "plain", panic |-> Parse(parser, Plain).panic])
    /\ UNCHANGED <<scope, run, heap, fns, thread_locks, resources_files, tasks, stdout,
                   ninst, crashed, log, sources, studyVars, channelVars>>

\* Parser::new(code), with the edited code
ParseEdited ==
    /\ stage = "spacing" /\ ~Did("edited")
    /\ whole' = Parse(whole, Edited).parser
    /\ results' = Append(results, [which |-> "edited", panic |-> Parse(whole, Edited).panic])
    /\ UNCHANGED <<parser, scope, run, heap, fns, thread_locks, resources_files, tasks, stdout,
                   ninst, crashed, log, sources, input, loop, stage, channelVars>>

NextSpacing == ParsePlain \/ ParseEdited

SpecSpacing == InitSpacing /\ [][NextSpacing]_vars

\* whether the parse `which` panicked
Panicked(which) == \E k \in 1..Len(results) : results[k].which = which /\ results[k].panic

\* C23: adding, removing or changing a whitespace character (space, tab,
\* line break) between two tokens outside string literals does not change
\* the tree that parse produces, nor whether parse accepts the code.
C23_WhitespaceIsInsignificant ==
    (stage = "spacing" /\ Did("plain") /\ Did("edited")) =>
        /\ Panicked("plain") = Panicked("edited")
        /\ ~Panicked("plain") => Shape(parser) = Shape(whole)

(***************************************************************************)
(*                      IDENTIFIERS AND KEYWORDS                           *)
(*                                                                         *)
(* Properties of the turns of SpecTurns that begin at a name.              *)
(***************************************************************************)

\* a character of a name or of a property path
IsNameChar(c) ==
    c \notin {" ", "\n", "\t", ";", ",", "{", "}", "(", ")", "[", "]", "\"", "="}

\* the last character of the name that begins at position k
NameEnd(k) ==
    CHOOSE e \in k..Len(Code) :
        /\ \A j \in k..e : IsNameChar(Code[j])
        /\ e = Len(Code) \/ ~IsNameChar(Code[e + 1])

\* the code has the text w at position k
At(k, w) == k + Len(w) - 1 <= Len(Code) /\ SubSeq(Code, k, k + Len(w) - 1) = w

\* the turns that made a node, and the last node a turn made
Makers == {t \in Turns : ~log[t].panic /\ log[t].nodes_after > log[t].nodes}

Node(t) == loop.objects[log[t].nodes_after]

\* the turns that began, outside a string, at the first character of an
\* identifier other than one that begins with the letters of `let`
Identifiers ==
    {t \in Turns :
        /\ log[t].string_count = 0 /\ ~log[t].panic
        /\ IsNameChar(Code[log[t].from])
        /\ ~IsAsciiDigit(Code[log[t].from]) /\ Code[log[t].from] # "."
        /\ log[t].from = 1 \/ ~IsNameChar(Code[log[t].from - 1])
        /\ ~At(log[t].from, <<"l", "e", "t">>)}

\* C31: an identifier is made a function call (a call, an if or an fn) if
\* and only if `(` comes directly after it; an identifier followed by
\* whitespace, `;`, `)`, `]`, `}` or the end of the code is made a variable
\* or property reference.
C31_CallIffParenthesisFollows ==
    \A t \in Identifiers :
        LET e == NameEnd(log[t].from)
        IN  /\ t \in Makers
            /\ Node(t).type \in {"FunctionCall", "IfDef", "FnDef"}
                   <=> (e < Len(Code) /\ Code[e + 1] = "(")
            /\ (e = Len(Code) \/ Code[e + 1] \in {" ", "\n", "\t", ";", ")", "]", "}"})
                   => Node(t).type \in {"VarRef", "PropertyRef"}

\* C39: a variable definition is started only by the keyword `let` followed
\* by a space: a turn that begins at an identifier which merely begins with
\* the letters `let` makes a variable reference or a function call, never a
\* VarDef.
C39_LetIsAKeywordOnly ==
    \A t \in Makers :
        (log[t].string_count = 0 /\ Node(t).type = "VarDef")
            => At(log[t].from, <<"l", "e", "t", " ">>)

(***************************************************************************)
(*                        THE KEYS OF THE ARENA                            *)
(*                                                                         *)
(* Properties of the steps of SpecParser: the arenas of `parser`, which    *)
(* parses two fragments one after the other, and of `whole`.               *)
(***************************************************************************)

\* the keys that a node holds in its fields, and the keys among them that
\* are to name a Block
KeysOf(o) ==
    CASE o.type = "Block" -> Range(o.objects)
      [] OTHER -> {}

BlockKeysOf(o) ==
    CASE o.type = "VarDef" -> {o.block_value}
      [] o.type = "FunctionCall" -> {o.arguments}
      [] o.type = "FnDef" -> {o.arguments_block, o.capture_value, o.block_value}
      [] o.type = "IfDef" -> {o.condition_block, o.block_value}
      [] OTHER -> {}

\* every key in a field names a node of the arena, a Block where the field
\* is a block of the node, and global_block names a Block
KeysExist(p) ==
    /\ p.global_block < Len(p.objects) /\ p.objects[p.global_block + 1].type = "Block"
    /\ \A n \in 1..Len(p.objects) :
           /\ \A k \in KeysOf(p.objects[n]) : k < Len(p.objects)
           /\ \A k \in BlockKeysOf(p.objects[n]) :
                  k < Len(p.objects) /\ p.objects[k + 1].type = "Block"

\* every key of the arena `old` names the same node in `new`: a Block has
\* kept the children it had, any other node is unchanged
KeysKept(old, new) ==
    /\ Len(new) >= Len(old)
    /\ \A n \in 1..Len(old) :
           IF old[n].type = "Block"
           THEN /\ new[n].type = "Block"
                /\ Len(new[n].objects) >= Len(old[n].objects)
                /\ SubSeq(new[n].objects, 1, Len(old[n].objects)) = old[n].objects
           ELSE new[n] = old[n]

\* C32: after any sequence of Parser::new and parse calls every key in a
\* field of a node names a node of the same arena, and a key never comes to
\* name another node than the one it was issued for.
C32_KeysAreValidAndStable ==
    [][/\ KeysExist(parser') /\ KeysExist(whole')
       /\ KeysKept(parser.objects, parser'.objects)
       /\ KeysKept(whole.objects, whole'.objects)]_vars

\* C32 happens: a fragment with an fn has been parsed, and then a fragment
\* with an if into the same arena, which holds every kind of node with keys
C32_Witness ==
    /\ stage = "second" /\ ~crashed /\ input = <<"Fn", "If">>
    /\ \A type \in {"VarDef", "FnDef", "IfDef", "Block"} :
           \E n \in 1..Len(parser.objects) : parser.objects[n].type = type
    /\ \E n \in 1..Len(parser.objects) :
           parser.objects[n].type = "IfDef" /\ parser.objects[n].condition_block > 0

(***************************************************************************)
(*               BINDINGS, TASKS, RE-ENTRY AND INCREMENTS                  *)
(*                                                                         *)
(* Further properties of the runs of Spec, over the history in `log`.      *)
(***************************************************************************)

\* a scope on the path of the reference of event i binds its name
Bound(i) == \E j \in Events("def") : Visible(j, i)

\* C34: a reference to a name that a scope on the current path binds gives
\* the value of the innermost binding whatever that value is: a name bound
\* to Void in a nested block gives Void there, not the value of an outer
\* binding and not VariableNotFound.
C34_InnermostBindingWhateverItsValue ==
    \A i \in Events("ref") : Bound(i) => log[i].res = Lexical(i)

\* C35: wait(h) joins the task that the thread call which returned h
\* started, wherever in the program the thread call and the wait call are;
\* it never joins another task.
C35_WaitJoinsTheTaskOfItsHandle ==
    \A i \in Events("wait") :
        "task" \in DOMAIN log[i].handle => log[i].joined = log[i].handle.task

\* C36: a call of a function value made while a call of the same function
\* value is in progress (a closure that is handed itself and calls it, a
\* callback that re-enters itself) is evaluated like any other call: it does
\* not crash.
C36_ReentrantCallIsEvaluated ==
    \A i \in Events("reenter") : log[i].res.k # "Panic"

\* C37: every call of a closure starts from the snapshot that was taken of
\* its captures when it was created: what an add in the body finds in a
\* captured integer is the captured value, whatever earlier calls of the
\* closure did to it.
C37_CallsStartFromTheSnapshot ==
    \A i \in Events("add") : \A c \in Events("captured") :
        log[i].target = log[c].addr => log[i].before = log[c].val

\* event i is of a statement of the root block evaluated on the host's Scope
\* by the run numbered n
OnHostScope(i, n) ==
    /\ log[i].by = 0 /\ log[i].run = n
    /\ "inst" \in DOMAIN log[i] /\ log[i].inst = 0

\* C38: a run on the same Scope after an incremental parse executes the
\* statements that the parse appended and no other: no statement that an
\* earlier run on the Scope went through is evaluated a second time.
C38_LaterRunsExecuteTheIncrementOnly ==
    \A k \in 1..Len(results) : \A i, j \in 1..Len(log) :
        ( /\ ~results[k].own
          /\ log[i].run > results[k].run
          /\ OnHostScope(i, log[i].run) /\ OnHostScope(j, log[i].run)
          /\ log[j].stmt > results[k].size )
            => log[i].stmt > results[k].size

\* the events that name the scope path of the node under evaluation
Pathed == {i \in 1..Len(log) : "path" \in DOMAIN log[i] /\ "scopes" \in DOMAIN log[i]}

\* C40: whenever a node is evaluated with scope path P, every prefix of P
\* is the path of a scope of the tree: no lookup, definition, creation or
\* removal of a scope by path meets a missing scope, in nested blocks, if
\* bodies, value blocks of variables and call arguments alike, and no
\* lookup panics on one.
C40_EveryPathPrefixIsAScope ==
    \A i \in Pathed :
        /\ \A k \in 0..Len(log[i].path) : SubSeq(log[i].path, 1, k) \in log[i].scopes
        /\ "res" \in DOMAIN log[i] => log[i].res # Panic("no such scope")

\* C40 happens: in one run, a block nested in a nested block was entered and
\* left, a variable was defined in a nested block from a value block with a
\* block of its own, and names and functions were looked up two scopes deep
C40_Witness ==
    /\ \E i \in Events("exit") : Len(log[i].path) = 2
    /\ \E i \in Events("def") : log[i].path = <<1>> /\ log[i].how = "let"
                                /\ \E x \in Events("exit") : x < i /\ log[x].path = <<1, 2>>
    /\ \E i \in Events("ref") : Len(log[i].path) = 2 /\ log[i].res.k = "Ok"
    /\ \E i \in Events("resolve") : Len(log[i].path) = 2

(***************************************************************************)
(*                    CHANNELS: channel, send, recv                        *)
(*                                                                         *)
(* A sixth state machine over the same variables, for the functions of     *)
(* src/examples/channel.rs.  The pool of channels is an                    *)
(* Arc<Mutex<Slab<ChannelInstance>>>; ChannelFunc, SendFunc and RecvFunc   *)
(* each hold a clone of it.  `callers` are threads that call these         *)
(* functions on one pool; a step of a caller is what its call does         *)
(* between two points where it can wait: for the mutex of the pool, for    *)
(* the mutex of a receiver, for a message.  A channel is its queue of      *)
(* messages sent and not yet received, and the holder of the mutex of its  *)
(* receiver; a holder is a caller, 0 is nobody.                            *)
(***************************************************************************)

NCallers == 3

MaxCalls == 2

MaxChannels == 2

Callers == 1..NCallers

\* the channel ids and the messages that the calls are made with
ChannelIds == {0, 1}

Messages == {Usize(7), Void}

\* a thread that is in no call
IdleCaller ==
    [pc |-> "idle", fn |-> "none", rid |-> 0, message |-> Void, calls |-> 0,
     waited |-> FALSE, r |-> Ok(Void)]

\* OwnedLenarValue::try_from: integers and booleans are shared, nothing else
Shareable(v) == v.t \in {"Usize", "Bool"}

\* ChannelInstance::new
NewChannel == [queue |-> <<>>, receiver |-> 0]

InitChannels ==
    /\ parser = NewParser
    /\ scope = NewScopeTree(0)
    /\ run = Idle
    /\ heap = <<>>
    /\ fns = <<>>
    /\ thread_locks = <<SlabNew>>
    /\ resources_files = <<SlabNew>>
    /\ tasks = <<>>
    /\ stdout = <<>>
    /\ ninst = 1
    /\ crashed = FALSE
    /\ log = <<>>
    /\ sources = <<>>
    /\ results = <<>>
    /\ input = <<>>
    /\ whole = NewParser
    /\ loop = ParseStart(NewParser, <<>>)
    /\ stage = "channels"
    /\ channels_pool = NewPool
    /\ callers = [c \in Callers |-> IdleCaller]

\* the channels that exist and those that calls in progress will insert
Channels ==
    Len(channels_pool.slab)
        + Cardinality({c \in Callers : /\ callers[c].fn = "channel"
                                       /\ callers[c].pc = "lock"})

\* a caller whose call is over: what the call returned, and whether it was a
\* recv that had found its channel empty
CallOver(me, pc, r) == [IdleCaller EXCEPT !.pc = pc, !.r = r, !.calls = me.calls,
                                         !.waited = me.waited]

\* what a call leaves in the pool, what it returns, and where the caller is
Leaves(pool, r, pc) == [pool |-> pool, r |-> r, pc |-> pc]

\* a panic of the thread that holds the guard of the pool: the mutex is
\* unlocked and poisoned
PanicsHolding(pool) ==
    Leaves([pool EXCEPT !.lock = 0, !.poisoned = TRUE], Panic("unwrap"), "panicked")

\* ChannelFunc::call, with the pool locked
ChannelLocked(pool) ==
    Leaves([pool EXCEPT !.slab = Append(@, NewChannel), !.lock = 0],
           Ok(Usize(Len(pool.slab))), "idle")

\* SendFunc::call, with the pool locked
SendLocked(pool, rid, message) ==
    IF rid >= Len(pool.slab) THEN PanicsHolding(pool)
    ELSE IF ~Shareable(message)
    THEN Leaves([pool EXCEPT !.lock = 0],
                Err("WrongValue", "This value cannot be shared between threads"), "idle")
    ELSE Leaves([pool EXCEPT !.slab[rid + 1].queue = Append(@, message), !.lock = 0],
                Ok(Void), "idle")

\* a block that would keep the guard of the pool after it ends
AfterCloneHolding(pool) == pool

\* RecvFunc::call, the end of the block that clones the receiver: the guard
\* of the pool is dropped
AfterClone(pool) == [pool EXCEPT !.lock = 0]

\* RecvFunc::call, with the pool locked
RecvLocked(pool, rid) ==
    IF rid >= Len(pool.slab) THEN PanicsHolding(pool)
    ELSE Leaves(AfterClone(pool), Ok(Void), "receiver")

\* a thread calls channel(), send(rid message) or recv(rid): the call up to
\* the lock() of the pool
Call(c, fn, rid, message) ==
    /\ stage = "channels"
    /\ callers[c].pc = "idle" /\ callers[c].calls < MaxCalls
    /\ callers' = [callers EXCEPT ![c] =
                       [pc |-> "lock", fn |-> fn, rid |-> rid, message |-> message,
                        calls |-> @.calls + 1, waited |-> FALSE, r |-> Ok(Void)]]
    /\ UNCHANGED <<parser, runtimeVars, crashed, sources, studyVars, channels_pool>>

\* channels_pool.lock().unwrap() and the part of the call that runs with the
\* pool locked: the caller waits for the mutex, panics when it gets a poisoned
\* one, and has dropped the guard when it returns or waits again
LockPool(c) ==
    /\ stage = "channels"
    /\ callers[c].pc = "lock" /\ channels_pool.lock = 0
    /\ LET me     == callers[c]
           locked == [channels_pool EXCEPT !.lock = c]
           left   == CASE channels_pool.poisoned ->
                              Leaves(channels_pool, Panic("PoisonError"), "panicked")
                       [] me.fn = "channel" -> ChannelLocked(locked)
                       [] me.fn = "send" -> SendLocked(locked, me.rid, me.message)
                       [] me.fn = "recv" -> RecvLocked(locked, me.rid)
       IN  /\ channels_pool' = left.pool
           /\ callers' = [callers EXCEPT ![c] = IF left.pc = "receiver"
                                                THEN [@ EXCEPT !.pc = left.pc]
                                                ELSE CallOver(@, left.pc, left.r)]
    /\ UNCHANGED <<parser, runtimeVars, crashed, sources, studyVars>>

\* RecvFunc::call, receiver.lock().unwrap(): the caller waits for the mutex
\* of the receiver
LockReceiver(c) ==
    /\ stage = "channels"
    /\ callers[c].pc = "receiver"
    /\ channels_pool.slab[callers[c].rid + 1].receiver = 0
    /\ channels_pool' = [channels_pool EXCEPT !.slab[callers[c].rid + 1].receiver = c]
    /\ callers' = [callers EXCEPT
                       ![c].pc = "recv",
                       ![c].waited = channels_pool.slab[callers[c].rid + 1].queue = <<>>]
    /\ UNCHANGED <<parser, runtimeVars, crashed, sources, studyVars>>

\* RecvFunc::call, recv(): the caller waits for a message, takes the oldest
\* and returns it
Receive(c) ==
    /\ stage = "channels"
    /\ callers[c].pc = "recv"
    /\ channels_pool.slab[callers[c].rid + 1].queue # <<>>
    /\ channels_pool' = [channels_pool EXCEPT
                             !.slab[callers[c].rid + 1].queue = Tail(@),
                             !.slab[callers[c].rid + 1].receiver = 0]
    /\ callers' = [callers EXCEPT
                       ![c] = CallOver(@, "idle",
                                       Ok(Head(channels_pool.slab[callers[c].rid + 1].queue)))]
    /\ UNCHANGED <<parser, runtimeVars, crashed, sources, studyVars>>

NextChannels ==
    \/ \E c \in Callers : Channels < MaxChannels /\ Call(c, "channel", 0, Void)
    \/ \E c \in Callers, rid \in ChannelIds, message \in Messages : Call(c, "send", rid, message)
    \/ \E c \in Callers, rid \in ChannelIds : Call(c, "recv", rid, Void)
    \/ \E c \in Callers : LockPool(c)
    \/ \E c \in Callers : LockReceiver(c)
    \/ \E c \in Callers : Receive(c)

\* every thread is scheduled: a step that a caller can take from some point
\* on without interruption is taken
SpecChannels ==
    /\ InitChannels /\ [][NextChannels]_vars
    /\ \A c \in Callers :
           WF_vars(LockPool(c)) /\ WF_vars(LockReceiver(c)) /\ WF_vars(Receive(c))

\* caller c is in recv, with the receiver or waiting for it
InRecv(c) == callers[c].pc \in {"receiver", "recv"}

\* the queue of the channel that caller c receives from
Inbox(c) == channels_pool.slab[callers[c].rid + 1].queue

\* C33: a recv that is blocked on an empty channel does not keep a send, on
\* its channel or on another, from completing: a caller in recv does not
\* hold the mutex of the pool, and every caller that waits for it gets it
\* and goes on to what its call does with the pool.  Once a
\* message is in the channel the blocked recv returns, and what it returns
\* is the oldest message sent on the channel and not yet received.
C33_BlockedRecvLetsSendsThrough ==
    /\ [](\A c \in Callers : InRecv(c) => channels_pool.lock # c)
    /\ \A c \in Callers : (callers[c].pc = "lock") ~> (callers[c].pc # "lock")
    /\ \A c \in Callers : (callers[c].pc = "recv" /\ Inbox(c) # <<>>) ~> (callers[c].pc = "idle")
    /\ [][\A c \in Callers :
              (callers[c].pc = "recv" /\ callers'[c].pc # "recv")
                  => callers'[c].pc = "idle" /\ callers'[c].r = Ok(Head(Inbox(c)))]_vars

\* C33 happens: a recv that had found its channel empty has returned the
\* message 7, which a send put there meanwhile; another caller's send has
\* returned, while a third caller is still blocked in recv on an empty channel
C33_Witness ==
    \E a, b, c \in Callers :
        /\ callers[a].waited /\ callers[a].pc = "idle" /\ callers[a].r = Ok(Usize(7))
        /\ b # a /\ callers[b].calls > 0 /\ callers[b].pc = "idle" /\ callers[b].r = Ok(Void)
        /\ callers[c].fn = "recv" /\ callers[c].pc = "recv" /\ callers[c].waited
        /\ Inbox(c) = <<>>
====
